---- MODULE Spec2Model ----
(***************************************************************************)
(* Job store, queue and background worker of pdf2md                        *)
(* (src/src/pdf2md/jobs/queue.py, src/src/pdf2md/jobs/worker.py).          *)
(*                                                                         *)
(* Every coroutine is cut at its awaits on the database or on the          *)
(* extraction thread: between two awaits the asyncio event loop runs one   *)
(* coroutine alone, at an await any other coroutine may run.  Awaits whose *)
(* result is an immutable column (pdf_path, options) or only the existence *)
(* of a row (rows are never deleted) are merged with the step that follows.*)
(* Timestamps are wall-clock reads; the model keeps whether a timestamp    *)
(* column is set, and orders jobs by a creation counter.                   *)
(***************************************************************************)
EXTENDS Integers, Sequences, FiniteSets, TLC

\* ---- bounds of the model ------------------------------------------------
MaxJobs == 2
MaxTasks == 2
MaxCallers == 1
MaxStoppers == 1
MaxGranters == 2
MaxTokens == 2
MaxTokenCalls == 1
MaxClock == 1
MaxQuota == 2
MaxLimClock == 90
MaxRlProcs == 2
MaxSbClock == 5
MaxCreators == 2
MaxThrottlers == 2
MaxPage == 2
MaxRetries == 3

JobIds == 1..MaxJobs
Tasks == 1..MaxTasks
Callers == 1..MaxCallers
Stoppers == 1..MaxStoppers
Granters == 1..MaxGranters
TokenIds == 1..MaxTokens
TokenCallers == 1..MaxTokenCalls
\* the credentials the rate limiters see: credential i has quota i
LimCreds == 1..MaxQuota
\* the server processes that share one Redis
RlProcs == 1..MaxRlProcs
\* concurrent create_job calls, and concurrent throttle_job calls
Creators == 1..MaxCreators
Throttlers == 1..MaxThrottlers

\* ---- values -------------------------------------------------------------
PENDING == "PENDING"
RUNNING == "RUNNING"
COMPLETED == "COMPLETED"
FAILED == "FAILED"
CANCELLED == "CANCELLED"
JobStatus == {PENDING, RUNNING, COMPLETED, FAILED, CANCELLED}
Terminal == {COMPLETED, FAILED, CANCELLED}

NoneVal == "None"
\* optResultPath = None: paths are sequences of their parts, None the empty one
NoPath == <<>>
Stamp == "now"
NoTask == 0
NoJob == 0

\* texts of the exceptions the conversion can raise (str(e))
ErrTexts == {"PDF validation failed", "Unsupported format"}
\* principals that throttle
ThrottleUsers == {"admin-user"}
\* user identifiers (User.strUserId, jobs.owner_user_id)
UserIds == {"alice", "bob"}
\* the worker and the queue operations it meets never read owner_user_id:
\* in their specification one submitting user stands for all
QueueOwners == {"alice"}

VARIABLES
    jobs,          \* table jobs: job_id -> row
    resultFiles,   \* job ids whose result file <results>/<id>.md is written
    boolRunning,   \* JobWorker.boolRunning
    optTask,       \* JobWorker.optTask (a task or NoTask)
    pc,            \* per task: position of its _worker_loop coroutine
    cur,           \* per task: the job id the loop holds (strJobId)
    exc,           \* per task: text of the exception caught in _process_job
    cancelCall,    \* per caller: its cancel_job call (ret: what its last call returned)
    stopWait,      \* per stop() call: the task it awaits, or NoTask
    grants,        \* table job_access_grants: (job_id, granted_to_user_id) ->
                   \* the granted_by_user_id of its rows, in the order of granted_at
    grantsUnique,  \* whether the schema keeps (job_id, granted_to_user_id) unique
    grantCall,     \* per grant call: its position, arguments and what it returned
    accessRet,     \* what the last check_job_access call returned
    resp,          \* the last HTTP response: status code and the job ids it carries
    tokens,        \* table tokens: token_id -> row
    issuedLog,     \* what create_token was asked for and returned, per token_id
    now,           \* datetime.now(), in days
    tokenCall,     \* per request: its call of a token route
    tokenRet,      \* the token_id the last method of TokenManager was given, and
                   \* what it returned
    dictRequests,  \* InMemoryRateLimiter.dictRequests: token_id -> timestamps
    limNow,        \* datetime.now() of the rate limiters, in seconds
    limRet,        \* the token_id check_rate_limit was last given, and its answer
    limLog,        \* per token_id: the times of the admitted calls, and the span
                   \* of calls that began on an empty record
    redisUp,       \* whether the Redis server answers
    redisKeys,     \* the counters of Redis: (token_id, window) -> count and expiry
    rlProc,        \* per process: its RedisRateLimiter and the call it is in
    rlRet,         \* the last answer of RedisRateLimiter.check_rate_limit
    rlLog,         \* per counter key: the calls admitted on its count
    mwOut,         \* what became of the last HTTP request: whether the limiter
                   \* was asked, whether the route ran, and the response
    sbx,           \* PDFSandbox.extract_pdf: the caller's position, the worker
                   \* process, and the seconds since the call
    createCall,    \* per caller: its create_job call and what the last returned
    insertLog,     \* the job ids of the INSERTs into jobs that went through
    throttleCall,  \* per caller: its throttle_job call and what the last returned
    listCall,      \* the list_jobs call in progress: its arguments, the total
                   \* its COUNT query gave, and the items it returned
    updateRet,     \* what the last update_job_status call returned
    retry          \* a call of a function wrapped by with_retry: the attempt,
                   \* the calls made, the waits slept, and how it ended

accessVars == <<grants, grantsUnique, grantCall, accessRet, resp>>

tokenVars == <<tokens, issuedLog, now, tokenCall, tokenRet>>

\* everything outside the job table, the result files and the worker
limVars == <<dictRequests, limNow, limRet, limLog>>

\* the rate limiters, the middleware, the sandbox and the calls of the job store
redisVars == <<redisUp, redisKeys, rlProc, rlRet, rlLog>>

storeVars == <<createCall, insertLog, throttleCall>>

lateVars == <<listCall, updateRet, retry>>

serviceVars == <<limVars, redisVars, mwOut, sbx, storeVars, lateVars>>

outsideVars == <<accessVars, tokenVars, serviceVars>>

vars == <<jobs, resultFiles, boolRunning, optTask, pc, cur, exc, cancelCall,
          stopWait, outsideVars>>

workerVars == <<boolRunning, optTask, pc, cur, exc, stopWait>>

\* ---- pure helpers -------------------------------------------------------
Min(a, b) == IF a < b THEN a ELSE b

\* str(Path(strResultsDir) / f"{strJobId}.md")
ResultPath(j) == <<"data/results", j, ".md">>

\* the row create_job inserts
NewJobRow(strOwnerUserId, createdAt) ==
    [owner |-> strOwnerUserId, status |-> PENDING, resultPath |-> NoPath,
     errorMessage |-> NoneVal,
     createdAt |-> createdAt, startedAt |-> NoneVal, completedAt |-> NoneVal,
     throttled |-> FALSE, throttledBy |-> NoneVal]

\* get_job finds a row ("optJob is not None")
job_found(js, j) == j \in DOMAIN js

\* an update_job_status whose RUNNING branch stamps completed_at as well
update_job_status_stamps_both(js, j, st, optResultPath, optErrorMessage) ==
    IF j \notin DOMAIN js THEN js
    ELSE IF st = RUNNING
         THEN [js EXCEPT ![j].status = st, ![j].startedAt = Stamp,
                         ![j].completedAt = Stamp]
    ELSE [js EXCEPT ![j].status = st, ![j].completedAt = Stamp,
                    ![j].resultPath = optResultPath,
                    ![j].errorMessage = optErrorMessage]

\* mutant: an UPDATE that inserts the row it does not find
update_job_status_upsert(js, j, st, optResultPath, optErrorMessage) ==
    IF j \notin DOMAIN js
    THEN js @@ (j :> [NewJobRow(NoneVal, j) EXCEPT !.status = st])
    ELSE IF st = RUNNING
         THEN [js EXCEPT ![j].status = st, ![j].startedAt = Stamp]
    ELSE IF st \in {COMPLETED, FAILED, CANCELLED}
         THEN [js EXCEPT ![j].status = st, ![j].completedAt = Stamp,
                         ![j].resultPath = optResultPath,
                         ![j].errorMessage = optErrorMessage]
    ELSE [js EXCEPT ![j].status = st]

\* the UPDATE statement update_job_status runs, as the new table
update_job_status(js, j, st, optResultPath, optErrorMessage) ==
    IF j \notin DOMAIN js THEN js
    ELSE IF st = RUNNING
         THEN [js EXCEPT ![j].status = st, ![j].startedAt = Stamp]
    ELSE IF st \in {COMPLETED, FAILED, CANCELLED}
         THEN [js EXCEPT ![j].status = st, ![j].completedAt = Stamp,
                         ![j].resultPath = optResultPath,
                         ![j].errorMessage = optErrorMessage]
    ELSE [js EXCEPT ![j].status = st]

\* Python's truth test of an optional string ("if optOwnerUserId:")
Truthy(optStr) == optStr \notin {NoneVal, ""}

\* rows matched by the WHERE clause of list_jobs
Matching(js, optStatus, optOwnerUserId) ==
    {j \in DOMAIN js :
        /\ optStatus = NoneVal \/ js[j].status = optStatus
        /\ ~Truthy(optOwnerUserId) \/ js[j].owner = optOwnerUserId}

\* ORDER BY created_at DESC
RECURSIVE NewestFirst(_, _)
NewestFirst(js, S) ==
    IF S = {} THEN <<>>
    ELSE LET m == CHOOSE j \in S : \A k \in S : js[k].createdAt <= js[j].createdAt
         IN <<m>> \o NewestFirst(js, S \ {m})

\* a list_jobs whose total is the size of the page
list_jobs_total_of_page(js, optStatus, optOwnerUserId, intLimit, intOffset) ==
    LET all == NewestFirst(js, Matching(js, optStatus, optOwnerUserId))
        page == SubSeq(all, intOffset + 1, Min(intOffset + intLimit, Len(all)))
    IN [items |-> page, total |-> Len(page)]

\* list_jobs: (items, total)
list_jobs(js, optStatus, optOwnerUserId, intLimit, intOffset) ==
    LET all == NewestFirst(js, Matching(js, optStatus, optOwnerUserId))
    IN [items |-> SubSeq(all, intOffset + 1, Min(intOffset + intLimit, Len(all))),
        total |-> Len(all)]

\* mutant: the worker takes the last row of the whole PENDING list
get_next_job_oldest_first(js) ==
    LET listJobs == list_jobs(js, PENDING, NoneVal, Cardinality(DOMAIN js), 0).items
    IN IF listJobs = <<>> THEN NoJob
       ELSE IF js[listJobs[Len(listJobs)]].throttled THEN NoJob
       ELSE listJobs[Len(listJobs)]

\* mutant: the worker passes over a job whose owner holds no active credential
get_next_job_of_live_owner(js) ==
    LET listJobs == list_jobs(js, PENDING, NoneVal, 1, 0).items
    IN IF listJobs = <<>> THEN NoJob
       ELSE IF js[listJobs[1]].throttled THEN NoJob
       ELSE IF ~\E i \in DOMAIN tokens :
                   /\ tokens[i].user_id = js[listJobs[1]].owner
                   /\ tokens[i].is_active = 1
            THEN NoJob
       ELSE listJobs[1]

\* _get_next_job: the job id picked, or NoJob
get_next_job(js) ==
    LET listJobs == list_jobs(js, PENDING, NoneVal, 1, 0).items
    IN IF listJobs = <<>> THEN NoJob
       ELSE IF js[listJobs[1]].throttled THEN NoJob
       ELSE listJobs[1]

\* mutant: only an already cancelled job is refused
CanCancelAnythingNotCancelled(st) == st # CANCELLED

\* cancel_job's test of the status it read
CanCancel(st) == st \in {PENDING, RUNNING}

\* the empty table job_access_grants
NoGrants == [k \in JobIds \X UserIds |-> <<>>]

\* a grant call slot nobody uses
IdleGrantCall == [pc |-> "idle", job |-> NoJob, to |-> NoneVal, by |-> NoneVal,
                  ret |-> NoneVal]

\* before the first request
NoResponse == [code |-> NoneVal, items |-> <<>>]

\* an Optional that is None, and one that holds x
Nothing == <<>>
Some(x) == <<x>>

\* a token call slot nobody uses
IdleTokenCall == [pc |-> "idle", id |-> 0, todo |-> <<>>, route |-> NoneVal]

\* ---- initial state ------------------------------------------------------
\* the job table, the worker and the cancel calls before the first operation
QueueInit ==
    /\ jobs = <<>>
    /\ resultFiles = {}
    /\ boolRunning = FALSE
    /\ optTask = NoTask
    /\ pc = [t \in Tasks |-> "none"]
    /\ cur = [t \in Tasks |-> NoJob]
    /\ exc = [t \in Tasks |-> NoneVal]
    /\ cancelCall = [c \in Callers |-> [pc |-> "idle", job |-> NoJob, ret |-> NoneVal]]
    /\ stopWait = [s \in Stoppers |-> NoTask]

\* no grant, no call, no response; boolUnique: the schema of job_access_grants
\* (database/schema.sql) keeps (job_id, granted_to_user_id) unique
AccessInit(boolUnique) ==
    /\ grants = NoGrants
    /\ grantsUnique = boolUnique
    /\ grantCall = [s \in Granters |-> IdleGrantCall]
    /\ accessRet = NoneVal
    /\ resp = NoResponse

\* an empty table tokens, the clock at its origin, no call
TokenInit ==
    /\ tokens = <<>>
    /\ issuedLog = <<>>
    /\ now = 0
    /\ tokenCall = [s \in TokenCallers |-> IdleTokenCall]
    /\ tokenRet = [id |-> 0, ret |-> NoneVal]

\* a new InMemoryRateLimiter: no request recorded
LimInit ==
    /\ dictRequests = [c \in LimCreds |-> <<>>]
    /\ limNow = 0
    /\ limRet = [id |-> 0, ret |-> FALSE]
    /\ limLog = [c \in LimCreds |-> [admits |-> <<>>, spanStart |-> 0, spanCalls |-> 0]]

\* the services before their first call
\* the window keys the clock can reach; one minute is 60 seconds
RlWindows == 0..(MaxLimClock \div 60)

\* an empty Redis that answers, and per process a RedisRateLimiter as
\* __init__ leaves it, not yet connected
RedisInit ==
    /\ redisUp = TRUE
    /\ redisKeys = [k \in LimCreds \X RlWindows |-> [n |-> 0, exp |-> <<>>]]
    /\ rlProc = [p \in RlProcs |->
                    [pc |-> "new", avail |-> TRUE, mode |-> "closed",
                     cred |-> 0, win |-> 0]]
    /\ rlRet = [proc |-> 0, kind |-> "none", ret |-> FALSE]
    /\ rlLog = [k \in LimCreds \X RlWindows |-> 0]

\* no HTTP request yet
NoRequest ==
    [path |-> "", method |-> "", valid |-> FALSE, limiter |-> "none",
     handler |-> FALSE, authed |-> FALSE, code |-> "", retryAfter |-> <<>>,
     calls |-> 0]

\* no extract_pdf call yet
SbIdle ==
    [pc |-> "idle", child |-> "none", elapsed |-> 0, timeout |-> 0,
     work |-> <<>>, busy |-> FALSE, cpu |-> <<>>, pending |-> "", out |-> ""]

\* a caller that is in no create_job call; ret: what its last call gave
IdleCreate(ret) ==
    [pc |-> "idle", id |-> 0, attempts |-> 0, owner |-> "", pdfPath |-> "",
     options |-> "", ret |-> ret]

\* a caller that is in no throttle_job call
IdleThrottle(ret) ==
    [pc |-> "idle", job |-> 0, throttled |-> FALSE, user |-> "", ret |-> ret]

\* no list_jobs call in progress, none returned
ListIdle ==
    [pc |-> "idle", status |-> NoneVal, owner |-> NoneVal, limit |-> 0,
     offset |-> 0, total |-> 0, items |-> <<>>]

\* no call of a wrapped function yet
RetryIdle ==
    [pc |-> "idle", n |-> 0, base |-> 0, attempt |-> 0, calls |-> 0,
     waits |-> <<>>, last |-> <<>>, out |-> <<>>]

ServiceInit ==
    /\ LimInit
    /\ RedisInit
    /\ mwOut = NoRequest
    /\ sbx = SbIdle
    /\ createCall = [s \in Creators |-> IdleCreate(<<>>)]
    /\ insertLog = <<>>
    /\ throttleCall = [s \in Throttlers |-> IdleThrottle(<<>>)]
    /\ listCall = ListIdle
    /\ updateRet = <<>>
    /\ retry = RetryIdle

Init ==
    /\ QueueInit
    /\ AccessInit(TRUE)
    /\ TokenInit
    /\ ServiceInit

\* ---- queue operations ---------------------------------------------------
\* create_job: a fresh identifier, the row inserted as PENDING (identifiers
\* are opaque: the model numbers the jobs in the order of their creation)
create_job(j, strOwnerUserId) ==
    /\ j \notin DOMAIN jobs
    /\ j = Cardinality(DOMAIN jobs) + 1
    /\ jobs' = jobs @@ (j :> NewJobRow(strOwnerUserId, Cardinality(DOMAIN jobs) + 1))
    /\ UNCHANGED <<resultFiles, cancelCall>>
    /\ UNCHANGED workerVars
    /\ UNCHANGED outsideVars

\* cancel_job up to its first write: get_job and the status test
cancel_job_check(c, j) ==
    /\ cancelCall[c].pc = "idle"
    /\ IF ~job_found(jobs, j)
       THEN cancelCall' = [cancelCall EXCEPT ![c] =
                [pc |-> "idle", job |-> j, ret |-> "False"]]
       ELSE IF ~CanCancel(jobs[j].status)
       THEN cancelCall' = [cancelCall EXCEPT ![c] =
                [pc |-> "idle", job |-> j, ret |-> "False"]]
       ELSE cancelCall' = [cancelCall EXCEPT ![c] =
                [pc |-> "checked", job |-> j, ret |-> NoneVal]]
    /\ UNCHANGED <<jobs, resultFiles>>
    /\ UNCHANGED workerVars
    /\ UNCHANGED outsideVars

\* cancel_job's update_job_status(CANCELLED) and return True
cancel_job_write(c) ==
    /\ cancelCall[c].pc = "checked"
    /\ jobs' = update_job_status(jobs, cancelCall[c].job, CANCELLED, NoPath, NoneVal)
    /\ cancelCall' = [cancelCall EXCEPT ![c] =
                [pc |-> "idle", job |-> cancelCall[c].job, ret |-> "True"]]
    /\ UNCHANGED resultFiles
    /\ UNCHANGED workerVars
    /\ UNCHANGED outsideVars

\* throttle_job
throttle_job(j, boolThrottled, strUserId) ==
    /\ job_found(jobs, j)
    /\ jobs' = [jobs EXCEPT ![j].throttled = boolThrottled,
                            ![j].throttledBy =
                                IF boolThrottled THEN strUserId ELSE NoneVal]
    /\ UNCHANGED <<resultFiles, cancelCall>>
    /\ UNCHANGED workerVars
    /\ UNCHANGED outsideVars

\* ---- worker lifecycle ---------------------------------------------------
\* a task object is referenced by the worker or by a suspended stop()
Referenced(t) == t = optTask \/ \E s \in Stoppers : stopWait[s] = t

\* task objects free to stand for a newly created task
FreeTasks == {t \in Tasks : pc[t] = "none" /\ ~Referenced(t)}

\* the guard of start(): a second start() of a running worker does nothing
StartRefused == boolRunning

\* JobWorker.start (asyncio.create_task: the new task is the lowest free one)
start ==
    /\ IF StartRefused
       THEN UNCHANGED <<boolRunning, optTask, pc>>
       ELSE \E t \in FreeTasks :
              /\ \A u \in FreeTasks : t <= u
              /\ boolRunning' = TRUE
              /\ optTask' = t
              /\ pc' = [pc EXCEPT ![t] = "loop"]
    /\ UNCHANGED <<jobs, resultFiles, cur, exc, cancelCall, stopWait>>
    /\ UNCHANGED outsideVars

\* JobWorker.stop up to its await (s is the lowest idle call slot)
stop_call(s) ==
    /\ stopWait[s] = NoTask
    /\ \A r \in Stoppers : stopWait[r] = NoTask => s <= r
    /\ IF ~boolRunning
       THEN UNCHANGED <<boolRunning, optTask, stopWait, pc>>
       ELSE /\ boolRunning' = FALSE
            /\ IF optTask = NoTask
               THEN UNCHANGED <<optTask, stopWait, pc>>
               ELSE IF pc[optTask] = "done"
               THEN /\ optTask' = NoTask
                    /\ pc' = [pc EXCEPT ![optTask] = "none"]
                    /\ UNCHANGED stopWait
               ELSE /\ stopWait' = [stopWait EXCEPT ![s] = optTask]
                    /\ UNCHANGED <<optTask, pc>>
    /\ UNCHANGED <<jobs, resultFiles, cur, exc, cancelCall>>
    /\ UNCHANGED outsideVars

\* JobWorker.stop resumed: the awaited task is done; self.optTask = None
stop_return(s) ==
    /\ stopWait[s] # NoTask
    /\ pc[stopWait[s]] = "done"
    /\ optTask' = NoTask
    /\ stopWait' = [stopWait EXCEPT ![s] = NoTask]
    /\ pc' = [pc EXCEPT ![stopWait[s]] = "none"]
    /\ UNCHANGED <<jobs, resultFiles, boolRunning, cur, exc, cancelCall>>
    /\ UNCHANGED outsideVars

\* ---- _worker_loop -------------------------------------------------------
\* the loop goes on while this holds
LoopGoesOn == boolRunning

\* while self.boolRunning (a finished task nobody references is dropped)
loop_check(t) ==
    /\ pc[t] = "loop"
    /\ pc' = [pc EXCEPT ![t] = IF LoopGoesOn THEN "fetch"
                                ELSE IF Referenced(t) THEN "done" ELSE "none"]
    /\ UNCHANGED <<jobs, resultFiles, boolRunning, optTask, cur, exc, cancelCall,
                   stopWait>>
    /\ UNCHANGED outsideVars

\* _get_next_job returns
fetch(t) ==
    /\ pc[t] = "fetch"
    /\ LET j == get_next_job(jobs)
       IN IF j = NoJob
          THEN /\ pc' = [pc EXCEPT ![t] = "sleep"]
               /\ UNCHANGED cur
          ELSE /\ pc' = [pc EXCEPT ![t] = "got"]
               /\ cur' = [cur EXCEPT ![t] = j]
    /\ UNCHANGED <<jobs, resultFiles, boolRunning, optTask, exc, cancelCall,
                   stopWait>>
    /\ UNCHANGED outsideVars

\* _get_next_job raises: the loop's except clause
fetch_raises(t) ==
    /\ pc[t] = "fetch"
    /\ pc' = [pc EXCEPT ![t] = "errsleep"]
    /\ UNCHANGED <<jobs, resultFiles, boolRunning, optTask, cur, exc, cancelCall,
                   stopWait>>
    /\ UNCHANGED outsideVars

\* asyncio.sleep(floatPollInterval) is over
sleep_done(t) ==
    /\ pc[t] \in {"sleep", "errsleep"}
    /\ pc' = [pc EXCEPT ![t] = "loop"]
    /\ UNCHANGED <<jobs, resultFiles, boolRunning, optTask, cur, exc, cancelCall,
                   stopWait>>
    /\ UNCHANGED outsideVars

\* _process_job: update_job_status(RUNNING), then the conversion is dispatched
process_start(t) ==
    /\ pc[t] = "got"
    /\ jobs' = update_job_status(jobs, cur[t], RUNNING, NoPath, NoneVal)
    /\ pc' = [pc EXCEPT ![t] = "extract"]
    /\ UNCHANGED <<resultFiles, boolRunning, optTask, cur, exc, cancelCall,
                   stopWait>>
    /\ UNCHANGED outsideVars

\* the conversion returns and the result file is written
extract_returns(t) ==
    /\ pc[t] = "extract"
    /\ resultFiles' = resultFiles \cup {cur[t]}
    /\ pc' = [pc EXCEPT ![t] = "complete"]
    /\ UNCHANGED <<jobs, boolRunning, optTask, cur, exc, cancelCall, stopWait>>
    /\ UNCHANGED outsideVars

\* option parsing, the conversion or the write of the result raises
extract_raises(t, e) ==
    /\ pc[t] = "extract"
    /\ exc' = [exc EXCEPT ![t] = e]
    /\ pc' = [pc EXCEPT ![t] = "fail"]
    /\ UNCHANGED <<jobs, resultFiles, boolRunning, optTask, cur, cancelCall,
                   stopWait>>
    /\ UNCHANGED outsideVars

\* mutant: COMPLETED is written without the result path
CompletedWriteNoPath(js, j) == update_job_status(js, j, COMPLETED, NoPath, NoneVal)

\* what _process_job's last statement on the success path leaves
CompletedWrite(js, j) == update_job_status(js, j, COMPLETED, ResultPath(j), NoneVal)

\* mutant: FAILED is written without the exception's text
FailedWriteNoText(js, j, e) == update_job_status(js, j, FAILED, NoPath, NoneVal)

\* mutant: FAILED is written together with the path of a result
FailedWriteWithPath(js, j, e) == update_job_status(js, j, FAILED, ResultPath(j), e)

\* what _process_job's except clause leaves
FailedWrite(js, j, e) == update_job_status(js, j, FAILED, NoPath, e)

\* update_job_status(COMPLETED, optResultPath); back in the loop
process_complete(t) ==
    /\ pc[t] = "complete"
    /\ jobs' = CompletedWrite(jobs, cur[t])
    /\ pc' = [pc EXCEPT ![t] = "loop"]
    /\ cur' = [cur EXCEPT ![t] = NoJob]
    /\ UNCHANGED <<resultFiles, boolRunning, optTask, exc, cancelCall, stopWait>>
    /\ UNCHANGED outsideVars

\* except Exception: update_job_status(FAILED, optErrorMessage=str(e))
process_fail(t) ==
    /\ pc[t] = "fail"
    /\ jobs' = FailedWrite(jobs, cur[t], exc[t])
    /\ pc' = [pc EXCEPT ![t] = "loop"]
    /\ cur' = [cur EXCEPT ![t] = NoJob]
    /\ exc' = [exc EXCEPT ![t] = NoneVal]
    /\ UNCHANGED <<resultFiles, boolRunning, optTask, cancelCall, stopWait>>
    /\ UNCHANGED outsideVars

WorkerStep(t) ==
    \/ loop_check(t)
    \/ fetch(t)
    \/ fetch_raises(t)
    \/ sleep_done(t)
    \/ process_start(t)
    \/ extract_returns(t)
    \/ \E e \in ErrTexts : extract_raises(t, e)
    \/ process_complete(t)
    \/ process_fail(t)

Next ==
    \/ \E j \in JobIds, o \in QueueOwners : create_job(j, o)
    \/ \E c \in Callers, j \in JobIds : cancel_job_check(c, j)
    \/ \E c \in Callers : cancel_job_write(c)
    \/ \E j \in JobIds, b \in BOOLEAN, u \in ThrottleUsers : throttle_job(j, b, u)
    \/ start
    \/ \E s \in Stoppers : stop_call(s)
    \/ \E s \in Stoppers : stop_return(s)
    \/ \E t \in Tasks : loop_check(t)
    \/ \E t \in Tasks : fetch(t)
    \/ \E t \in Tasks : fetch_raises(t)
    \/ \E t \in Tasks : sleep_done(t)
    \/ \E t \in Tasks : process_start(t)
    \/ \E t \in Tasks : extract_returns(t)
    \/ \E t \in Tasks, e \in ErrTexts : extract_raises(t, e)
    \/ \E t \in Tasks : process_complete(t)
    \/ \E t \in Tasks : process_fail(t)

Spec == Init /\ [][Next]_vars

\* the event loop runs every ready coroutine, sleeps end, and the conversion
\* returns or raises
FairSpec == Spec /\ \A t \in Tasks : WF_vars(WorkerStep(t))

\* ---- the worker as the application runs it -----------------------------
\* lifespan() awaits start() at startup and stop() at shutdown: the two are
\* never in progress together
lifespan_start ==
    /\ \A s \in Stoppers : stopWait[s] = NoTask
    /\ start

LifespanNext ==
    \/ \E j \in JobIds, o \in QueueOwners : create_job(j, o)
    \/ \E c \in Callers, j \in JobIds : cancel_job_check(c, j)
    \/ \E c \in Callers : cancel_job_write(c)
    \/ \E j \in JobIds, b \in BOOLEAN, u \in ThrottleUsers : throttle_job(j, b, u)
    \/ lifespan_start
    \/ \E s \in Stoppers : stop_call(s)
    \/ \E s \in Stoppers : stop_return(s)
    \/ \E t \in Tasks : loop_check(t)
    \/ \E t \in Tasks : fetch(t)
    \/ \E t \in Tasks : fetch_raises(t)
    \/ \E t \in Tasks : sleep_done(t)
    \/ \E t \in Tasks : process_start(t)
    \/ \E t \in Tasks : extract_returns(t)
    \/ \E t \in Tasks, e \in ErrTexts : extract_raises(t, e)
    \/ \E t \in Tasks : process_complete(t)
    \/ \E t \in Tasks : process_fail(t)

LifespanSpec == Init /\ [][LifespanNext]_vars

FairLifespanSpec == LifespanSpec /\ \A t \in Tasks : WF_vars(WorkerStep(t))
\* ---- properties ---------------------------------------------------------
\* the edges of the job state machine
Edges == {<<PENDING, RUNNING>>, <<RUNNING, COMPLETED>>, <<RUNNING, FAILED>>,
          <<PENDING, CANCELLED>>, <<RUNNING, CANCELLED>>}

\* C1: a job whose status is COMPLETED, FAILED or CANCELLED never has its
\* status changed to PENDING or RUNNING, whatever the interleaving of the
\* worker's steps with cancel calls.
C1_TerminalStaysTerminal ==
    [][\A j \in DOMAIN jobs :
         jobs[j].status \in Terminal => jobs'[j].status \in Terminal]_vars

\* C2: every change of a job's status is one of the five edges of the state
\* machine.
C2_OnlyStateMachineEdges ==
    [][\A j \in DOMAIN jobs :
         jobs'[j].status # jobs[j].status
             => <<jobs[j].status, jobs'[j].status>> \in Edges]_vars

\* C3: cancel_job goes on to its write only for a job it read as PENDING or
\* RUNNING, and then returns true with the status CANCELLED; for a job it
\* read as COMPLETED, FAILED or CANCELLED (or did not find) it returns false
\* and leaves every field of every job unchanged.
C3_CancelContract ==
    [][\A c \in Callers :
         cancelCall'[c] # cancelCall[c] =>
            LET j == cancelCall'[c].job
            IN \/ /\ cancelCall[c].pc = "idle"
                  /\ cancelCall'[c].pc = "checked"
                  /\ j \in DOMAIN jobs
                  /\ jobs[j].status \in {PENDING, RUNNING}
                  /\ jobs' = jobs
               \/ /\ cancelCall[c].pc = "idle"
                  /\ cancelCall'[c].pc = "idle"
                  /\ cancelCall'[c].ret = "False"
                  /\ j \in DOMAIN jobs => jobs[j].status \in Terminal
                  /\ jobs' = jobs
               \/ /\ cancelCall[c].pc = "checked"
                  /\ cancelCall'[c].pc = "idle"
                  /\ cancelCall'[c].ret = "True"
                  /\ j = cancelCall[c].job
                  /\ jobs'[j].status = CANCELLED]_vars

\* a cancel_job call on a COMPLETED job has returned false
C3_Witness ==
    \E c \in Callers :
        /\ cancelCall[c].pc = "idle"
        /\ cancelCall[c].ret = "False"
        /\ cancelCall[c].job \in DOMAIN jobs
        /\ jobs[cancelCall[c].job].status = COMPLETED
        /\ jobs[cancelCall[c].job].resultPath # NoPath

\* C4: the worker's fetch reports "no job" (and the loop sleeps) only when no
\* PENDING job without the throttle flag exists.
C4_SleepsOnlyWhenNothingToDo ==
    [][\A t \in Tasks :
         (pc[t] = "fetch" /\ pc'[t] = "sleep")
            => ~\E j \in DOMAIN jobs :
                   jobs[j].status = PENDING /\ ~jobs[j].throttled]_vars

\* C5: the worker never moves a job to RUNNING while its throttle flag is
\* set: a throttled PENDING job stays PENDING or is cancelled.
C5_ThrottledNeverStarted ==
    [][\A j \in DOMAIN jobs :
         (jobs[j].throttled /\ jobs[j].status = PENDING)
            => jobs'[j].status \in {PENDING, CANCELLED}]_vars

\* polling loops that are alive, and loops whose conversion is under way
AliveLoops == {t \in Tasks : pc[t] \notin {"none", "done"}}
Extracting == {t \in Tasks : pc[t] = "extract"}

\* C6: at most one polling loop is alive and at most one job is being
\* extracted at any time, for any interleaving of start() and stop().
C6_SingleConsumer ==
    Cardinality(AliveLoops) <= 1 /\ Cardinality(Extracting) <= 1

\* the job's terminal status is recorded with its result or its error
Recorded(j) ==
    \/ /\ jobs[j].status = COMPLETED
       /\ jobs[j].resultPath = ResultPath(j)
       /\ Len(jobs[j].resultPath) > 0
    \/ jobs[j].status = FAILED /\ jobs[j].errorMessage \in ErrTexts

\* C7: every job the worker has moved to RUNNING eventually is COMPLETED with
\* its result path recorded or FAILED with the error text recorded, provided
\* the conversion returns or raises and the worker keeps being scheduled;
\* when the conversion has succeeded the worker's next write makes the job
\* COMPLETED with the non-empty path of the result file it has written.
C7_RunningReachesTerminal ==
    /\ \A t \in Tasks : \A j \in JobIds :
          (pc[t] = "extract" /\ cur[t] = j) ~> (j \in DOMAIN jobs /\ Recorded(j))
    /\ [][\A t \in Tasks :
            (pc[t] = "complete" /\ pc'[t] # "complete")
               => /\ jobs[cur[t]].startedAt # NoneVal
                  /\ jobs'[cur[t]].status = COMPLETED
                  /\ jobs'[cur[t]].resultPath = ResultPath(cur[t])
                  /\ Len(jobs'[cur[t]].resultPath) > 0
                  /\ cur[t] \in resultFiles]_vars

\* a job the worker ran is COMPLETED with its result path and its result file
C7_Witness ==
    \E j \in DOMAIN jobs :
        /\ jobs[j].status = COMPLETED
        /\ jobs[j].startedAt # NoneVal
        /\ jobs[j].resultPath = ResultPath(j)
        /\ j \in resultFiles

\* C8: an exception caught while a job is processed makes the job FAILED
\* with the exception's text and the loop goes back to its head; an exception
\* of the fetch step leads to the sleep and then to the loop's head; a loop
\* ends only at its head, when the worker has been told to stop.
C8_ExceptionsKeepLoopAlive ==
    [][\A t \in Tasks :
         /\ (pc[t] = "fail" /\ pc'[t] # "fail")
               => /\ pc'[t] = "loop"
                  /\ jobs'[cur[t]].status = FAILED
                  /\ jobs'[cur[t]].errorMessage = exc[t]
                  /\ exc[t] \in ErrTexts
         /\ (pc[t] = "errsleep" /\ pc'[t] # "errsleep") => pc'[t] = "loop"
         /\ (pc[t] \notin {"none", "done"} /\ pc'[t] \in {"none", "done"})
               => (pc[t] = "loop" /\ ~boolRunning)]_vars

\* a job has FAILED with an exception's text and the loop that ran it polls on
C8_Witness ==
    \E j \in DOMAIN jobs : \E t \in Tasks :
        /\ jobs[j].status = FAILED
        /\ jobs[j].errorMessage \in ErrTexts
        /\ pc[t] = "fetch"
        /\ boolRunning

\* C9: a loop a stop() call waits for does not begin another iteration, and
\* once the worker is stopped and every stop() call has returned no loop is
\* left to fetch a job or to move one to RUNNING.
C9_StopEndsTheLoop ==
    /\ [][\A s \in Stoppers : \A t \in Tasks :
            (stopWait[s] = t /\ pc[t] = "loop") => pc'[t] # "fetch"]_vars
    /\ []((~boolRunning /\ \A s \in Stoppers : stopWait[s] = NoTask)
             => AliveLoops = {})

\* C10: the worker picks only PENDING jobs, and dispatches a job only if no
\* loop has dispatched (started) it before.
C10_PicksPendingDispatchesOnce ==
    [][\A t \in Tasks :
         /\ (pc[t] = "fetch" /\ pc'[t] = "got")
               => jobs[cur'[t]].status = PENDING
         /\ (pc[t] = "got" /\ pc'[t] = "extract")
               => jobs[cur[t]].startedAt = NoneVal]_vars

\* ---- ownership and access grants ----------------------------------------
\* The owner of a job never changes and no row of jobs or of
\* job_access_grants is ever deleted or updated: a read of the owner or of a
\* job's existence is merged with the step that follows it.  The SELECT and
\* the INSERT of grant_job_access are two steps.
MaxGrantJobs == 1
GrantJobIds == 1..MaxGrantJobs

\* check_job_ownership
check_job_ownership(js, j, strUserId) ==
    IF j \notin DOMAIN js THEN FALSE ELSE js[j].owner = strUserId

\* SELECT 1 FROM job_access_grants WHERE job_id = ? AND granted_to_user_id = ?
\* finds a row
grant_row_found(gr, j, strUserId) == gr[<<j, strUserId>>] # <<>>

\* mutant: only the owner has access
check_job_access_owner_only(js, gr, j, strUserId) ==
    check_job_ownership(js, j, strUserId)

\* check_job_access
check_job_access(js, gr, j, strUserId) ==
    IF check_job_ownership(js, j, strUserId) THEN TRUE
    ELSE grant_row_found(gr, j, strUserId)

\* Python's True and False as a call's recorded return value
PyBool(b) == IF b THEN "True" ELSE "False"

\* a call of check_job_access returns
check_access_call(j, strUserId) ==
    /\ accessRet' = PyBool(check_job_access(jobs, grants, j, strUserId))
    /\ UNCHANGED <<jobs, resultFiles, cancelCall, grants, grantsUnique, grantCall,
                   resp>>
    /\ UNCHANGED workerVars
    /\ UNCHANGED tokenVars
    /\ UNCHANGED serviceVars

\* a grant call that has returned ret
GrantReturned(ret) ==
    [pc |-> "idle", job |-> NoJob, to |-> NoneVal, by |-> NoneVal, ret |-> ret]

\* the table after INSERT INTO job_access_grants
InsertGrant(gr, j, strGrantedToUserId, strGrantedByUserId) ==
    [gr EXCEPT ![<<j, strGrantedToUserId>>] = Append(@, strGrantedByUserId)]

\* grant_job_access up to its INSERT: get_job, then the SELECT for a row of
\* the pair (s is the lowest idle call slot)
grant_job_access_check(s, j, strGrantedToUserId, strGrantedByUserId) ==
    /\ grantCall[s].pc = "idle"
    /\ \A r \in Granters : grantCall[r].pc = "idle" => s <= r
    /\ IF ~job_found(jobs, j)
       THEN grantCall' = [grantCall EXCEPT ![s] = GrantReturned("False")]
       ELSE IF grant_row_found(grants, j, strGrantedToUserId)
       THEN grantCall' = [grantCall EXCEPT ![s] = GrantReturned("True")]
       ELSE grantCall' = [grantCall EXCEPT ![s] =
                [pc |-> "checked", job |-> j, to |-> strGrantedToUserId,
                 by |-> strGrantedByUserId, ret |-> NoneVal]]
    /\ UNCHANGED <<jobs, resultFiles, cancelCall, grants, grantsUnique, accessRet>>
    /\ UNCHANGED workerVars
    /\ UNCHANGED tokenVars
    /\ UNCHANGED serviceVars

\* the INSERT of grant_job_access and return True.  When a row of the pair
\* has appeared since the SELECT, a schema that keeps the pair unique makes
\* the INSERT raise (sqlite3.IntegrityError), any other schema stores a
\* second row.
grant_job_access_insert(s) ==
    /\ grantCall[s].pc = "checked"
    /\ LET k == <<grantCall[s].job, grantCall[s].to>>
       IN IF grants[k] # <<>> /\ grantsUnique
          THEN /\ grantCall' = [grantCall EXCEPT ![s] = GrantReturned("raises")]
               /\ UNCHANGED grants
          ELSE /\ grants' = InsertGrant(grants, k[1], k[2], grantCall[s].by)
               /\ grantCall' = [grantCall EXCEPT ![s] = GrantReturned("True")]
    /\ UNCHANGED <<jobs, resultFiles, cancelCall, grantsUnique, accessRet>>
    /\ UNCHANGED workerVars
    /\ UNCHANGED tokenVars
    /\ UNCHANGED serviceVars

\* database/schema.sql may or may not keep (job_id, granted_to_user_id)
\* unique in job_access_grants: both schemas are taken
SchemaChoices == BOOLEAN

\* the queue and check_job_access called directly, as tests/test_api_jobs.py
\* does (resp stays as it is), on either schema
GrantInit ==
    /\ QueueInit
    /\ \E boolUnique \in SchemaChoices : AccessInit(boolUnique)
    /\ TokenInit
    /\ ServiceInit

GrantNext ==
    \/ \E j \in GrantJobIds, o \in UserIds : create_job(j, o)
    \/ \E s \in Granters, j \in JobIds, to \in UserIds, by \in UserIds :
          grant_job_access_check(s, j, to, by) /\ UNCHANGED resp
    \/ \E s \in Granters : grant_job_access_insert(s) /\ UNCHANGED resp
    \/ \E j \in JobIds, u \in UserIds : check_access_call(j, u)
    \/ \E c \in Callers, j \in JobIds : cancel_job_check(c, j)
    \/ \E c \in Callers : cancel_job_write(c)
    \/ \E j \in JobIds, b \in BOOLEAN, u \in ThrottleUsers : throttle_job(j, b, u)

GrantSpec == GrantInit /\ [][GrantNext]_vars

\* owner of the job or holder of a grant on it
OwnerOrGranted(j, u) ==
    \/ (j \in DOMAIN jobs /\ jobs[j].owner = u)
    \/ grants[<<j, u>>] # <<>>

\* C11: check_job_access(J, P) is true exactly when P owns J or a grant
\* (J, P) exists; it stays true once true, it turns true for a principal that
\* is not the owner only by the INSERT of a grant call for (J, P), and it is
\* true whenever a grant call for (J, P) has returned True.
C11_AccessIsOwnerOrGrant ==
    /\ [](\A j \in JobIds, u \in UserIds :
             check_job_access(jobs, grants, j, u) <=> OwnerOrGranted(j, u))
    /\ [][\A j \in JobIds, u \in UserIds :
            /\ check_access_call(j, u) => accessRet' = PyBool(OwnerOrGranted(j, u))
            /\ check_job_access(jobs, grants, j, u)
                  => check_job_access(jobs', grants', j, u)
            /\ (/\ j \in DOMAIN jobs
                /\ ~check_job_access(jobs, grants, j, u)
                /\ check_job_access(jobs', grants', j, u))
                  => \E s \in Granters :
                        /\ grantCall[s].pc = "checked"
                        /\ grantCall[s].job = j /\ grantCall[s].to = u
                        /\ grantCall'[s].ret = "True"
            /\ \A s \in Granters :
                  (/\ \/ \E by \in UserIds : grant_job_access_check(s, j, u, by)
                      \/ (grant_job_access_insert(s) /\ grantCall[s].job = j
                            /\ grantCall[s].to = u)
                   /\ grantCall'[s].ret = "True")
                  => check_job_access(jobs', grants', j, u)]_vars

\* a principal that does not own the job has been granted access, and a
\* check_job_access call has returned True
C11_Witness ==
    \E j \in DOMAIN jobs : \E u \in UserIds :
        /\ jobs[j].owner # u
        /\ grants[<<j, u>>] # <<>>
        /\ accessRet = "True"
        /\ \E s \in Granters : grantCall[s].ret = "True"

\* C12: granting is idempotent under every interleaving of grant calls: the
\* table holds at most one row for a pair (job, grantee), no grant call
\* raises, a grant call that finds the pair granted returns True, and the
\* first row of a pair (its granting principal and its place in time) stays.
C12_GrantIdempotent ==
    /\ [](\A k \in JobIds \X UserIds : Len(grants[k]) <= 1)
    /\ [](\A s \in Granters : grantCall[s].ret # "raises")
    /\ [][\A k \in JobIds \X UserIds :
            /\ grants[k] # <<>>
                  => (grants'[k] # <<>> /\ grants'[k][1] = grants[k][1])
            /\ \A s \in Granters :
                  (/\ grants[k] # <<>>
                   /\ \E by \in UserIds :
                         grant_job_access_check(s, k[1], k[2], by))
                  => grantCall'[s].ret = "True"]_vars

\* ---- roles and permissions ----------------------------------------------
ADMIN == "admin"
JOB_MANAGER == "job_manager"
JOB_WRITER == "job_writer"
JOB_READER == "job_reader"
Roles == {ADMIN, JOB_MANAGER, JOB_WRITER, JOB_READER}

CREATE_JOB == "create_job"
VIEW_OWN_JOBS == "view_own_jobs"
VIEW_ALL_JOBS == "view_all_jobs"
STOP_OWN_JOBS == "stop_own_jobs"
STOP_ALL_JOBS == "stop_all_jobs"
THROTTLE_JOBS == "throttle_jobs"
GRANT_JOB_ACCESS == "grant_job_access"
CREATE_TOKEN == "create_token"
CREATE_ADMIN_TOKEN == "create_admin_token"
VIEW_TOKENS == "view_tokens"
REVOKE_TOKEN == "revoke_token"
MODIFY_TOKEN == "modify_token"
VIEW_TOKEN_USAGE == "view_token_usage"
Permission ==
    {CREATE_JOB, VIEW_OWN_JOBS, VIEW_ALL_JOBS, STOP_OWN_JOBS, STOP_ALL_JOBS,
     THROTTLE_JOBS, GRANT_JOB_ACCESS, CREATE_TOKEN, CREATE_ADMIN_TOKEN,
     VIEW_TOKENS, REVOKE_TOKEN, MODIFY_TOKEN, VIEW_TOKEN_USAGE}

\* mutant: the job manager may grant access as well
ROLE_PERMISSIONS_manager_grants ==
    [r \in Roles |->
        IF r = ADMIN THEN Permission
        ELSE IF r = JOB_MANAGER
        THEN {CREATE_JOB, VIEW_OWN_JOBS, VIEW_ALL_JOBS, STOP_OWN_JOBS,
              STOP_ALL_JOBS, THROTTLE_JOBS, GRANT_JOB_ACCESS}
        ELSE IF r = JOB_WRITER
        THEN {CREATE_JOB, VIEW_OWN_JOBS, STOP_OWN_JOBS, GRANT_JOB_ACCESS}
        ELSE {VIEW_OWN_JOBS}]

\* the role-based permission matrix
ROLE_PERMISSIONS ==
    [r \in Roles |->
        IF r = ADMIN THEN Permission
        ELSE IF r = JOB_MANAGER
        THEN {CREATE_JOB, VIEW_OWN_JOBS, VIEW_ALL_JOBS, STOP_OWN_JOBS,
              STOP_ALL_JOBS, THROTTLE_JOBS}
        ELSE IF r = JOB_WRITER
        THEN {CREATE_JOB, VIEW_OWN_JOBS, STOP_OWN_JOBS, GRANT_JOB_ACCESS}
        ELSE {VIEW_OWN_JOBS}]

\* mutant: every role is given the permissions of the admin
check_permission_as_admin(user, permission) == permission \in ROLE_PERMISSIONS[ADMIN]

\* check_permission: ROLE_PERMISSIONS.get(user.role, set())
check_permission(user, permission) ==
    permission \in (IF user.role \in DOMAIN ROLE_PERMISSIONS
                    THEN ROLE_PERMISSIONS[user.role] ELSE {})

\* the authenticated users get_current_user can hand to a route: a user
\* identifier is not bound to one role (two tokens of one user identifier
\* may carry different roles)
Users == [strUserId : UserIds, role : Roles]

\* ---- the job routes -----------------------------------------------------
\* An HTTP response: its status code and the job ids a listing or a
\* submission carries.  A route whose reads are of immutable columns and of
\* rows that are never deleted is one step.  In ApiSpec the worker is seen
\* through its three writes to the job table.

Response(code, items) == [code |-> code, items |-> items]

\* limit and offset of list_jobs when the request gives none
DefaultLimit == 50
DefaultOffset == 0

\* uploaded file names (stem and suffix; the empty name), output formats and
\* extractors a request may carry
FileNames == {<<"doc", ".pdf">>, <<"doc", ".txt">>, <<>>}
OutputFormats == {"markdown", "html"}
ExtractorNames == {"pdfplumber", "tesseract"}
\* the forms submitted: at most one field is invalid
ConvertForms ==
    {f \in [file : FileNames, output_format : OutputFormats,
            extractor : ExtractorNames] :
        Cardinality({x \in {1, 2, 3} :
            \/ x = 1 /\ f.file # <<"doc", ".pdf">>
            \/ x = 2 /\ f.output_format # "markdown"
            \/ x = 3 /\ f.extractor # "pdfplumber"}) <= 1}
\* status filters a request may carry
StatusFilters == {NoneVal, "", "bogus", PENDING, COMPLETED}
\* the exception text of a failed conversion in ApiSpec
ApiErrTexts == {"PDF validation failed"}

\* file.filename.endswith(".pdf")
EndsWithPdf(name) == name # <<>> /\ name[Len(name)] = ".pdf"

\* JobStatus(status): the member whose value the text is, or ValueError
ParseJobStatus(text) == IF text \in JobStatus THEN text ELSE "ValueError"

\* mutant: the upload is validated but the role is not tested
convert_pdf_refusal_any_role(user, file, output_format, extractor) ==
    IF file = <<>> THEN "400"
    ELSE IF ~EndsWithPdf(file) THEN "400"
    ELSE IF output_format \notin {"markdown", "json", "yaml", "text"} THEN "400"
    ELSE IF extractor \notin {"pdfplumber", "pymupdf"} THEN "400"
    ELSE NoneVal

\* POST /convert up to the upload: the status code of its HTTPException, or
\* NoneVal when the request passes
convert_pdf_refusal(user, file, output_format, extractor) ==
    IF ~check_permission(user, CREATE_JOB) THEN "403"
    ELSE IF file = <<>> THEN "400"
    ELSE IF ~EndsWithPdf(file) THEN "400"
    ELSE IF output_format \notin {"markdown", "json", "yaml", "text"} THEN "400"
    ELSE IF extractor \notin {"pdfplumber", "pymupdf"} THEN "400"
    ELSE NoneVal

\* POST /convert
convert_pdf(user, file, output_format, extractor) ==
    /\ IF convert_pdf_refusal(user, file, output_format, extractor) # NoneVal
       THEN /\ resp' = Response(convert_pdf_refusal(user, file, output_format,
                                                    extractor), <<>>)
            /\ UNCHANGED jobs
       ELSE \E j \in JobIds :
              /\ j \notin DOMAIN jobs
              /\ j = Cardinality(DOMAIN jobs) + 1
              /\ jobs' = jobs @@ (j :> NewJobRow(user.strUserId,
                                                 Cardinality(DOMAIN jobs) + 1))
              /\ resp' = Response("200", <<j>>)
    /\ UNCHANGED <<resultFiles, cancelCall, grants, grantsUnique, grantCall,
                   accessRet>>
    /\ UNCHANGED workerVars
    /\ UNCHANGED tokenVars
    /\ UNCHANGED serviceVars

\* mutant: the detail of a job is given to every authenticated user
get_job_response_unchecked(js, gr, user, j) ==
    IF ~job_found(js, j) THEN Response("404", <<>>) ELSE Response("200", <<>>)

\* the response of GET /jobs/{job_id}
get_job_response(js, gr, user, j) ==
    IF ~job_found(js, j) THEN Response("404", <<>>)
    ELSE IF /\ ~check_permission(user, VIEW_ALL_JOBS)
            /\ ~check_job_access(js, gr, j, user.strUserId)
    THEN Response("403", <<>>)
    ELSE Response("200", <<>>)

\* GET /jobs/{job_id}
get_job(user, j) ==
    /\ resp' = get_job_response(jobs, grants, user, j)
    /\ UNCHANGED <<jobs, resultFiles, cancelCall, grants, grantsUnique, grantCall,
                   accessRet>>
    /\ UNCHANGED workerVars
    /\ UNCHANGED tokenVars
    /\ UNCHANGED serviceVars

\* a result route that tests neither the status nor the result file
get_job_result_response_unchecked(js, files, gr, user, j) ==
    IF ~job_found(js, j) THEN Response("404", <<>>)
    ELSE IF /\ ~check_permission(user, VIEW_ALL_JOBS)
            /\ ~check_job_access(js, gr, j, user.strUserId)
    THEN Response("403", <<>>)
    ELSE Response("200", <<>>)

\* the response of GET /jobs/{job_id}/result
get_job_result_response(js, files, gr, user, j) ==
    IF ~job_found(js, j) THEN Response("404", <<>>)
    ELSE IF /\ ~check_permission(user, VIEW_ALL_JOBS)
            /\ ~check_job_access(js, gr, j, user.strUserId)
    THEN Response("403", <<>>)
    ELSE IF js[j].status # COMPLETED THEN Response("400", <<>>)
    ELSE IF js[j].resultPath = NoPath THEN Response("404", <<>>)
    ELSE IF ~(js[j].resultPath = ResultPath(j) /\ j \in files)
    THEN Response("404", <<>>)
    ELSE Response("200", <<>>)

\* GET /jobs/{job_id}/result
get_job_result(user, j) ==
    /\ resp' = get_job_result_response(jobs, resultFiles, grants, user, j)
    /\ UNCHANGED <<jobs, resultFiles, cancelCall, grants, grantsUnique, grantCall,
                   accessRet>>
    /\ UNCHANGED workerVars
    /\ UNCHANGED tokenVars
    /\ UNCHANGED serviceVars

\* the response of GET /jobs.  A status text that is no JobStatus value
\* reaches "status.HTTP_400_BAD_REQUEST" with status bound to the query text:
\* the AttributeError is answered with 500.
list_jobs_response(js, user, status) ==
    IF Truthy(status) /\ ParseJobStatus(status) = "ValueError"
    THEN Response("500", <<>>)
    ELSE LET optStatusFilter ==
                IF Truthy(status) THEN ParseJobStatus(status) ELSE NoneVal
         IN IF check_permission(user, VIEW_ALL_JOBS)
            THEN Response("200",
                    list_jobs(js, optStatusFilter, NoneVal, DefaultLimit,
                              DefaultOffset).items)
            ELSE Response("200",
                    list_jobs(js, optStatusFilter, user.strUserId, DefaultLimit,
                              DefaultOffset).items)

\* GET /jobs
list_jobs_route(user, status) ==
    /\ resp' = list_jobs_response(jobs, user, status)
    /\ UNCHANGED <<jobs, resultFiles, cancelCall, grants, grantsUnique, grantCall,
                   accessRet>>
    /\ UNCHANGED workerVars
    /\ UNCHANGED tokenVars
    /\ UNCHANGED serviceVars

\* POST /jobs/{job_id}/grant-access up to the call of the queue: the status
\* code of its HTTPException, or NoneVal when the request passes
grant_job_access_refusal(js, user, j) ==
    IF ~job_found(js, j) THEN "404"
    ELSE IF ~check_permission(user, GRANT_JOB_ACCESS) THEN "403"
    ELSE IF user.role # "admin" /\ ~check_job_ownership(js, j, user.strUserId)
    THEN "403"
    ELSE NoneVal

\* POST /jobs/{job_id}/grant-access: the request meets no other grant call
\* here, so the SELECT and the INSERT of JobQueue.grant_job_access are taken
\* together (GrantSpec interleaves them)
grant_job_access_route(user, j, strGrantee) ==
    /\ IF grant_job_access_refusal(jobs, user, j) # NoneVal
       THEN /\ resp' = Response(grant_job_access_refusal(jobs, user, j), <<>>)
            /\ UNCHANGED grants
       ELSE /\ grants' = IF grant_row_found(grants, j, strGrantee) THEN grants
                         ELSE InsertGrant(grants, j, strGrantee, user.strUserId)
            /\ resp' = Response("200", <<>>)
    /\ UNCHANGED <<jobs, resultFiles, cancelCall, grantsUnique, grantCall, accessRet>>
    /\ UNCHANGED workerVars
    /\ UNCHANGED tokenVars
    /\ UNCHANGED serviceVars

\* _process_job's update_job_status(RUNNING) on the job _get_next_job picked
worker_marks_running(j) ==
    /\ j = get_next_job(jobs)
    /\ jobs' = update_job_status(jobs, j, RUNNING, NoPath, NoneVal)
    /\ UNCHANGED <<resultFiles, cancelCall>>
    /\ UNCHANGED workerVars
    /\ UNCHANGED outsideVars

\* _process_job's result file and update_job_status(COMPLETED)
worker_completes(j) ==
    /\ j \in DOMAIN jobs
    /\ jobs[j].status = RUNNING
    /\ resultFiles' = resultFiles \cup {j}
    /\ jobs' = CompletedWrite(jobs, j)
    /\ UNCHANGED cancelCall
    /\ UNCHANGED workerVars
    /\ UNCHANGED outsideVars

\* _process_job's except clause
worker_fails(j, e) ==
    /\ j \in DOMAIN jobs
    /\ jobs[j].status = RUNNING
    /\ jobs' = FailedWrite(jobs, j, e)
    /\ UNCHANGED <<resultFiles, cancelCall>>
    /\ UNCHANGED workerVars
    /\ UNCHANGED outsideVars

ApiNext ==
    \/ \E user \in Users, f \in ConvertForms :
          convert_pdf(user, f.file, f.output_format, f.extractor)
    \/ \E user \in Users, j \in JobIds : get_job(user, j)
    \/ \E user \in Users, j \in JobIds : get_job_result(user, j)
    \/ \E user \in Users, status \in StatusFilters : list_jobs_route(user, status)
    \/ \E user \in Users, j \in JobIds, to \in UserIds :
          grant_job_access_route(user, j, to)
    \/ \E j \in JobIds : worker_marks_running(j)
    \/ \E j \in JobIds : worker_completes(j)
    \/ \E j \in JobIds, e \in ApiErrTexts : worker_fails(j, e)

\* the application after startup; the schema of job_access_grants is not
\* exercised by ApiNext (no two grant calls meet)
ApiSpec == Init /\ [][ApiNext]_vars

\* section 4.5: the roles whose row has view_all ticked
HoldsViewAll(role) == role \in {ADMIN, JOB_MANAGER}

\* owner of the job, holder of a grant on it, or of a role with view_all
MayView(user, j) ==
    \/ jobs[j].owner = user.strUserId
    \/ grants[<<j, user.strUserId>>] # <<>>
    \/ HoldsViewAll(user.role)

\* C13: a request for the detail or the result of an existing job is
\* answered with an authorization error (403, no job data) exactly when the
\* caller neither owns the job nor holds a grant on it nor has a role with
\* view_all; the owner, a grantee and a view_all role get the detail, and
\* the result when the job is COMPLETED and its result file is there.
C13_ViewOnlyOwnerGranteeOrViewAll ==
    \A user \in Users : \A j \in DOMAIN jobs :
        /\ get_job_response(jobs, grants, user, j)
              = IF MayView(user, j) THEN Response("200", <<>>)
                ELSE Response("403", <<>>)
        /\ ~MayView(user, j)
              => get_job_result_response(jobs, resultFiles, grants, user, j)
                    = Response("403", <<>>)
        /\ MayView(user, j)
              => get_job_result_response(jobs, resultFiles, grants, user, j).code
                    # "403"
        /\ (MayView(user, j) /\ jobs[j].status = COMPLETED /\ j \in resultFiles)
              => get_job_result_response(jobs, resultFiles, grants, user, j)
                    = Response("200", <<>>)

\* a COMPLETED job has a grantee who is not its owner, and a request has been
\* refused with 403
C13_Witness ==
    \E j \in DOMAIN jobs : \E u \in UserIds :
        /\ jobs[j].owner # u
        /\ grants[<<j, u>>] # <<>>
        /\ jobs[j].status = COMPLETED
        /\ j \in resultFiles
        /\ resp = Response("403", <<>>)

\* the job ids of a sequence
Range(seq) == {seq[i] : i \in DOMAIN seq}

\* C14: for a caller whose role lacks view_all the listing holds exactly the
\* jobs the caller owns or has been granted access to that pass the status
\* filter, and never another owner's job without a grant; for a role with
\* view_all it holds every job that passes the filter.
C14_ListShowsOwnedAndGranted ==
    \A user \in Users : \A status \in {NoneVal} \cup JobStatus :
        Range(list_jobs_response(jobs, user, status).items)
            = {j \in DOMAIN jobs :
                 /\ status = NoneVal \/ jobs[j].status = status
                 /\ MayView(user, j)}

\* ---- the cancel route ---------------------------------------------------
\* POST /jobs/{job_id}/cancel up to the write of JobQueue.cancel_job: the
\* route's get_job and permission test, then cancel_job's read of the status.
\* A request that goes on to the write keeps its user in the call slot.
cancel_job_route_check(c, user, j) ==
    /\ cancelCall[c].pc = "idle"
    /\ IF ~job_found(jobs, j)
       THEN resp' = Response("404", <<>>) /\ UNCHANGED cancelCall
       ELSE IF /\ ~check_permission(user, STOP_ALL_JOBS)
               /\ ~check_job_ownership(jobs, j, user.strUserId)
       THEN resp' = Response("403", <<>>) /\ UNCHANGED cancelCall
       ELSE IF ~CanCancel(jobs[j].status)
       THEN resp' = Response("400", <<>>) /\ UNCHANGED cancelCall
       ELSE /\ cancelCall' = [cancelCall EXCEPT ![c] =
                    [pc |-> "checked", job |-> j, ret |-> NoneVal, user |-> user]]
            /\ UNCHANGED resp
    /\ UNCHANGED <<jobs, resultFiles, grants, grantsUnique, grantCall, accessRet>>
    /\ UNCHANGED workerVars
    /\ UNCHANGED tokenVars
    /\ UNCHANGED serviceVars

\* cancel_job's update_job_status(CANCELLED), return True, and the route's
\* answer
cancel_job_route_write(c) ==
    /\ cancelCall[c].pc = "checked"
    /\ jobs' = update_job_status(jobs, cancelCall[c].job, CANCELLED, NoPath, NoneVal)
    /\ cancelCall' = [cancelCall EXCEPT ![c] =
                [pc |-> "idle", job |-> NoJob, ret |-> NoneVal]]
    /\ resp' = Response("200", <<>>)
    /\ UNCHANGED <<resultFiles, grants, grantsUnique, grantCall, accessRet>>
    /\ UNCHANGED workerVars
    /\ UNCHANGED tokenVars
    /\ UNCHANGED serviceVars

CancelApiNext ==
    \/ \E user \in Users, f \in ConvertForms :
          convert_pdf(user, f.file, f.output_format, f.extractor)
    \/ \E c \in Callers, user \in Users, j \in JobIds :
          cancel_job_route_check(c, user, j)
    \/ \E c \in Callers : cancel_job_route_write(c)
    \/ \E j \in JobIds : worker_marks_running(j)
    \/ \E j \in JobIds : worker_completes(j)
    \/ \E j \in JobIds, e \in ApiErrTexts : worker_fails(j, e)

CancelApiSpec == Init /\ [][CancelApiNext]_vars

\* section 4.5: the roles whose row has stop_own, and stop_all, ticked
HoldsStopOwn(role) == role \in {ADMIN, JOB_MANAGER, JOB_WRITER}
HoldsStopAll(role) == role \in {ADMIN, JOB_MANAGER}

\* C15: a job becomes CANCELLED only by the cancel request of a user whose
\* role holds stop_all, or holds stop_own while the user owns the job: a
\* user with neither permission (job_reader) cancels nothing, whatever its
\* identifier, and a user with stop_own only cancels only its own jobs.
C15_CancelNeedsStopPermission ==
    [][\A j \in DOMAIN jobs :
         (jobs[j].status # CANCELLED /\ jobs'[j].status = CANCELLED)
            => \E c \in Callers :
                  /\ cancelCall[c].pc = "checked"
                  /\ cancelCall[c].job = j
                  /\ \/ HoldsStopAll(cancelCall[c].user.role)
                     \/ /\ HoldsStopOwn(cancelCall[c].user.role)
                        /\ jobs[j].owner = cancelCall[c].user.strUserId]_vars

\* section 4.5: the roles whose row has grant_access ticked
HoldsGrantAccess(role) == role \in {ADMIN, JOB_WRITER}

\* the caller may grant access to job j: its role holds grant_access and it
\* is an admin or the owner of j
MayGrant(user, j) ==
    /\ HoldsGrantAccess(user.role)
    /\ user.role = ADMIN \/ jobs[j].owner = user.strUserId

\* C16: a grant-access request on an existing job is refused with 403
\* exactly when the caller may not grant (job_manager and job_reader always,
\* job_writer on a job it does not own); the grant relation changes only by
\* a grant-access request, never by one of a caller that may not grant, and
\* a step that answers with a refusal leaves it unchanged.
C16_GrantOnlyByAdminOrOwningWriter ==
    /\ [](\A user \in Users : \A j \in DOMAIN jobs :
             grant_job_access_refusal(jobs, user, j)
                = IF MayGrant(user, j) THEN NoneVal ELSE "403")
    /\ [][/\ grants' # grants
               => /\ \E user \in Users, j \in DOMAIN jobs, to \in UserIds :
                        grant_job_access_route(user, j, to)
                  /\ \A user \in Users, j \in DOMAIN jobs, to \in UserIds :
                        grant_job_access_route(user, j, to)
                           => (MayGrant(user, j) /\ resp'.code = "200")
          /\ (resp' # resp /\ resp'.code \in {"403", "404"})
                => grants' = grants]_vars

\* the owner of a job has granted another user access to it, and a
\* grant-access request has been refused
C16_Witness ==
    \E j \in DOMAIN jobs : \E u \in UserIds :
        /\ jobs[j].owner # u
        /\ grants[<<j, u>>] = <<jobs[j].owner>>
        /\ resp = Response("403", <<>>)

\* section 4.5: the roles whose row has create_job ticked
HoldsCreateJob(role) == role \in {ADMIN, JOB_MANAGER, JOB_WRITER}

\* a form whose file, output format and extractor are all valid
ValidForm(f) ==
    /\ f.file = <<"doc", ".pdf">>
    /\ f.output_format = "markdown"
    /\ f.extractor = "pdfplumber"

\* C17: a conversion request of a user whose role lacks create_job
\* (job_reader) is answered 403 and a step answering 403 leaves the job
\* table as it is; a valid request of a user with create_job passes; a job
\* appears only by the conversion request of a user with create_job,
\* answered 200 with the new job's identifier, and the new job is PENDING
\* and owned by that user while the other rows stay.
C17_ConvertNeedsCreateJob ==
    /\ [](\A user \in Users, f \in ConvertForms :
            /\ ~HoldsCreateJob(user.role)
                  => convert_pdf_refusal(user, f.file, f.output_format,
                                         f.extractor) = "403"
            /\ (HoldsCreateJob(user.role) /\ ValidForm(f))
                  => convert_pdf_refusal(user, f.file, f.output_format,
                                         f.extractor) = NoneVal)
    /\ [][/\ DOMAIN jobs' # DOMAIN jobs
               => /\ \E user \in Users, f \in ConvertForms :
                        convert_pdf(user, f.file, f.output_format, f.extractor)
                  /\ \A user \in Users, f \in ConvertForms :
                        convert_pdf(user, f.file, f.output_format, f.extractor)
                           => /\ HoldsCreateJob(user.role)
                              /\ resp'.code = "200"
                              /\ \E j \in DOMAIN jobs' \ DOMAIN jobs :
                                    /\ DOMAIN jobs' = DOMAIN jobs \cup {j}
                                    /\ resp'.items = <<j>>
                                    /\ jobs'[j].status = PENDING
                                    /\ jobs'[j].owner = user.strUserId
                              /\ \A k \in DOMAIN jobs : jobs'[k] = jobs[k]
          /\ (resp' # resp /\ resp'.code = "403") => jobs' = jobs]_vars

\* a submitted job is PENDING and a later request has been refused with 403
C17_Witness ==
    /\ \E j \in DOMAIN jobs : jobs[j].status = PENDING
    /\ resp = Response("403", <<>>)

\* section 4.5, column by column: the roles whose cell is ticked (the last
\* column stands for view_tokens, revoke_token and modify_token)
Section45 ==
    [p \in Permission \ {VIEW_TOKEN_USAGE} |->
        IF p = VIEW_OWN_JOBS THEN {ADMIN, JOB_MANAGER, JOB_WRITER, JOB_READER}
        ELSE IF p \in {CREATE_JOB, STOP_OWN_JOBS} THEN {ADMIN, JOB_MANAGER, JOB_WRITER}
        ELSE IF p \in {VIEW_ALL_JOBS, STOP_ALL_JOBS, THROTTLE_JOBS}
        THEN {ADMIN, JOB_MANAGER}
        ELSE IF p = GRANT_JOB_ACCESS THEN {ADMIN, JOB_WRITER}
        ELSE {ADMIN}]

\* C18: for every role and every permission of the table of section 4.5,
\* check_permission is true exactly when the cell of the role and the
\* permission is ticked, whoever the user is; and a cancel request the route's
\* test has let through is of a role with stop_all ticked or of the job's
\* owner.
C18_PermissionTable ==
    /\ \A user \in Users : \A p \in DOMAIN Section45 :
          check_permission(user, p) <=> user.role \in Section45[p]
    /\ \A c \in Callers :
          cancelCall[c].pc = "checked"
             => \/ cancelCall[c].user.role \in Section45[STOP_ALL_JOBS]
                \/ jobs[cancelCall[c].job].owner = cancelCall[c].user.strUserId

\* the first request served was refused for its role: a conversion request
\* of a job_reader
C18_Witness ==
    /\ resp = Response("403", <<>>)
    /\ \E c \in Callers :
          /\ cancelCall[c].pc = "checked"
          /\ cancelCall[c].user.role = JOB_WRITER

\* ---- tokens ---------------------------------------------------------------
\* the user identifiers tokens are created for
TokenUserIds == {"alice"}

\* generate_token: the prefix and 256 random bits; n stands for the bits, two
\* calls never draw the same
generate_token(n) == <<"pdf2md_", n>>

\* the strings a caller presents: every token ever generated, and one of
\* another format
TokenStrings == {generate_token(n) : n \in TokenIds} \cup {<<"Bearer", 1>>}

\* strToken.startswith("pdf2md_")
startswith_pdf2md(strToken) == strToken[1] = "pdf2md_"

\* bcrypt.hashpw and bcrypt.checkpw: the hash of a string matches that string
\* and no other (the salt is left out)
hashpw(strToken) == <<"bcrypt", strToken>>
checkpw(strToken, strStoredHash) == strStoredHash = hashpw(strToken)

\* Role(value): the role of that value, Nothing where Python raises ValueError
RoleOf(strRole) == IF strRole \in Roles THEN Some(strRole) ELSE Nothing

\* create_token's rate limit of a role when the caller gives none
dictRateLimits ==
    [r \in Roles |-> IF r = ADMIN THEN 1000
                     ELSE IF r = JOB_MANAGER THEN 500
                     ELSE IF r = JOB_WRITER THEN 100
                     ELSE 50]

\* the row create_token inserts at time clock
TokenRow(strToken, strUserId, role, optExpiresDays, optCreatedBy, intRateLimit, clock) ==
    [token_hash |-> hashpw(strToken),
     user_id |-> strUserId,
     role |-> role,
     expires_at |-> IF optExpiresDays # Nothing
                    THEN Some(clock + optExpiresDays[1]) ELSE Nothing,
     is_active |-> 1,
     rate_limit |-> IF intRateLimit = Nothing
                    THEN dictRateLimits[role] ELSE intRateLimit[1],
     created_by |-> optCreatedBy]

\* uuid.uuid4(): an identifier never given before
NewTokenId(log) == Len(log) + 1

\* the table after create_token's INSERT
InsertToken(toks, log, strUserId, role, optExpiresDays, optCreatedBy, intRateLimit, clock) ==
    toks @@ (NewTokenId(log) :>
                TokenRow(generate_token(NewTokenId(log)), strUserId, role,
                         optExpiresDays, optCreatedBy, intRateLimit, clock))

\* what create_token was asked for and what it returned
Issued(log, role) ==
    Append(log, [strToken |-> generate_token(NewTokenId(log)), role |-> role])

\* the User validate_token builds from a row
UserOfRow(toks, i) ==
    [strTokenId |-> i, strUserId |-> toks[i].user_id, role |-> toks[i].role,
     intRateLimit |-> toks[i].rate_limit]

\* the first row of SELECT * FROM tokens WHERE is_active = 1 whose hash matches
MatchingRows(toks, strToken) ==
    {i \in DOMAIN toks : toks[i].is_active = 1 /\ checkpw(strToken, toks[i].token_hash)}

FirstRow(rows) == CHOOSE i \in rows : \A k \in rows : i <= k

\* validate_token without the test of expires_at
validate_token_ignoring_expiry(toks, clock, strToken) ==
    IF ~startswith_pdf2md(strToken) THEN Nothing
    ELSE IF MatchingRows(toks, strToken) = {} THEN Nothing
    ELSE Some(UserOfRow(toks, FirstRow(MatchingRows(toks, strToken))))

\* validate_token at time clock: Some(User), or Nothing for None
validate_token(toks, clock, strToken) ==
    IF ~startswith_pdf2md(strToken) THEN Nothing
    ELSE IF MatchingRows(toks, strToken) = {} THEN Nothing
    ELSE LET i == FirstRow(MatchingRows(toks, strToken))
         IN  IF toks[i].expires_at # Nothing /\ clock > toks[i].expires_at[1]
             THEN Nothing
             ELSE Some(UserOfRow(toks, i))

\* get_token_by_id(strTokenId) is not None
token_found(toks, strTokenId) == strTokenId \in DOMAIN toks

\* the methods of TokenManager that change a row
REVOKE == "revoke_token"
DISABLE == "disable_token"
ENABLE == "enable_token"
RATE == "update_rate_limit"

\* one method call that is still to be made: the method and its intRateLimit
MethodCall(op, intRateLimit) == [op |-> op, intRateLimit |-> intRateLimit]

\* the table after the DELETE or UPDATE of a method; no row of that id, no change
MethodWrite(toks, op, strTokenId, intRateLimit) ==
    IF strTokenId \notin DOMAIN toks THEN toks
    ELSE IF op = REVOKE THEN [i \in DOMAIN toks \ {strTokenId} |-> toks[i]]
    ELSE IF op = DISABLE THEN [toks EXCEPT ![strTokenId].is_active = 0]
    ELSE IF op = ENABLE THEN [toks EXCEPT ![strTokenId].is_active = 1]
    ELSE [toks EXCEPT ![strTokenId].rate_limit = intRateLimit]

\* what the token actions leave alone
tokenFrame == <<jobs, resultFiles, cancelCall, grants, grantsUnique, grantCall,
                accessRet, workerVars, serviceVars>>

\* the slot of a call once the method at the head of todo has returned
AfterReturn(call) ==
    IF Len(call.todo) = 1 THEN IdleTokenCall
    ELSE [call EXCEPT !.pc = "next", !.todo = Tail(call.todo)]

\* the answer of the route of a call whose last method returned boolRet: the
\* revoke route answers 404 to False, the update route ignores what the
\* methods return
RouteAnswer(call, boolRet, old) ==
    IF Len(call.todo) > 1 THEN old
    ELSE IF call.route = "revoke" /\ ~boolRet THEN Response("404", <<>>)
    ELSE Response("200", <<>>)

\* a method's get_token_by_id: None makes it return False, a row takes it to
\* its write
token_method_enter(s) ==
    /\ tokenCall[s].pc = "next"
    /\ IF token_found(tokens, tokenCall[s].id)
       THEN /\ tokenCall' = [tokenCall EXCEPT ![s].pc = "found"]
            /\ UNCHANGED <<tokenRet, resp>>
       ELSE /\ tokenCall' = [tokenCall EXCEPT ![s] = AfterReturn(tokenCall[s])]
            /\ tokenRet' = [id |-> tokenCall[s].id, ret |-> "False"]
            /\ resp' = RouteAnswer(tokenCall[s], FALSE, resp)
    /\ UNCHANGED <<tokens, issuedLog, now>>
    /\ UNCHANGED tokenFrame

\* the CLI commands revoke-token, disable-token and enable-token: the method's
\* get_token_by_id and its DELETE or UPDATE, in one step of the CLI's process
cli_token_cmd(op, strTokenId) ==
    /\ tokens' = MethodWrite(tokens, op, strTokenId, 0)
    /\ tokenRet' = [id |-> strTokenId, ret |-> PyBool(token_found(tokens, strTokenId))]
    /\ UNCHANGED <<issuedLog, now, tokenCall, resp>>
    /\ UNCHANGED tokenFrame

\* the DELETE or UPDATE of a method and its return True
token_method_write(s) ==
    /\ tokenCall[s].pc = "found"
    /\ tokens' = MethodWrite(tokens, Head(tokenCall[s].todo).op, tokenCall[s].id,
                             Head(tokenCall[s].todo).intRateLimit)
    /\ tokenRet' = [id |-> tokenCall[s].id, ret |-> "True"]
    /\ tokenCall' = [tokenCall EXCEPT ![s] = AfterReturn(tokenCall[s])]
    /\ resp' = RouteAnswer(tokenCall[s], TRUE, resp)
    /\ UNCHANGED <<issuedLog, now>>
    /\ UNCHANGED tokenFrame

\* what the token routes and the CLI are given
RoleInputs == {ADMIN, JOB_WRITER, "ADMIN"}
CliRoleInputs == {ADMIN, JOB_MANAGER, "root"}
ExpiresInputs == {Nothing, Some(0)}
RateLimitInputs == {Nothing, Some(7)}
IsActiveInputs == {Nothing, Some(TRUE), Some(FALSE)}
CreateTokenRequests ==
    [user_id : TokenUserIds, role : RoleInputs, expires_days : {Nothing},
     rate_limit : {Nothing}]
UpdateTokenRequests == [is_active : IsActiveInputs, rate_limit : RateLimitInputs]

\* the CLI command create-token: Role(role_str), then create_token with no
\* optCreatedBy
cli_create_token(strUserId, strRole, optExpiresDays, intRateLimit) ==
    /\ IF RoleOf(strRole) = Nothing
       THEN /\ tokenRet' = [id |-> 0, ret |-> "Exit(1)"]
            /\ UNCHANGED <<tokens, issuedLog>>
       ELSE /\ Len(issuedLog) < MaxTokens
            /\ tokens' = InsertToken(tokens, issuedLog, strUserId, RoleOf(strRole)[1],
                                     optExpiresDays, Nothing, intRateLimit, now)
            /\ issuedLog' = Issued(issuedLog, RoleOf(strRole)[1])
            /\ UNCHANGED tokenRet
    /\ UNCHANGED <<now, tokenCall, resp>>
    /\ UNCHANGED tokenFrame

\* get_current_user of a request to a route that asks no permission: 401 when
\* validate_token returns None
get_current_user(strToken) ==
    /\ resp' = IF validate_token(tokens, now, strToken) = Nothing
               THEN Response("401", <<>>) ELSE Response("200", <<>>)
    /\ UNCHANGED <<tokens, issuedLog, now, tokenCall, tokenRet>>
    /\ UNCHANGED tokenFrame

\* POST /admin/tokens without the test of Role.ADMIN
create_token_refusal_admin_allowed(optUser, strRole) ==
    IF optUser = Nothing THEN "401"
    ELSE IF ~check_permission(optUser[1], CREATE_TOKEN) THEN "403"
    ELSE IF RoleOf(strRole) = Nothing THEN "400"
    ELSE ""

\* the status code POST /admin/tokens refuses a request with, "" if it does
\* not: get_current_user, the permission, Role(request.role), Role.ADMIN
create_token_refusal(optUser, strRole) ==
    IF optUser = Nothing THEN "401"
    ELSE IF ~check_permission(optUser[1], CREATE_TOKEN) THEN "403"
    ELSE IF RoleOf(strRole) = Nothing THEN "400"
    ELSE IF RoleOf(strRole)[1] = ADMIN THEN "403"
    ELSE ""

\* POST /admin/tokens up to the INSERT of create_token
create_token_route(s, strToken, request) ==
    /\ tokenCall[s].pc = "idle"
    /\ LET optUser == validate_token(tokens, now, strToken)
           refusal == create_token_refusal(optUser, request.role)
       IN  IF refusal # ""
           THEN /\ resp' = Response(refusal, <<>>)
                /\ UNCHANGED <<tokens, issuedLog, tokenCall>>
           ELSE /\ Len(issuedLog) < MaxTokens
                /\ tokens' = InsertToken(tokens, issuedLog, request.user_id,
                                         RoleOf(request.role)[1], request.expires_days,
                                         Some(optUser[1].strTokenId),
                                         request.rate_limit, now)
                /\ issuedLog' = Issued(issuedLog, RoleOf(request.role)[1])
                /\ tokenCall' = [tokenCall EXCEPT ![s] =
                        [pc |-> "created", id |-> NewTokenId(issuedLog),
                         todo |-> <<>>, route |-> "create"]]
                /\ UNCHANGED resp
    /\ UNCHANGED <<now, tokenRet>>
    /\ UNCHANGED tokenFrame

\* the route's get_token_by_id of the new token, its assert and its answer
create_token_route_answer(s) ==
    /\ tokenCall[s].pc = "created"
    /\ resp' = IF token_found(tokens, tokenCall[s].id)
               THEN Response("200", <<>>) ELSE Response("500", <<>>)
    /\ tokenCall' = [tokenCall EXCEPT ![s] = IdleTokenCall]
    /\ UNCHANGED <<tokens, issuedLog, now, tokenRet>>
    /\ UNCHANGED tokenFrame

\* DELETE /admin/tokens/{token_id} up to the call of revoke_token
revoke_token_route(s, strToken, strTokenId) ==
    /\ tokenCall[s].pc = "idle"
    /\ LET optUser == validate_token(tokens, now, strToken)
       IN  IF optUser = Nothing
           THEN resp' = Response("401", <<>>) /\ UNCHANGED tokenCall
           ELSE IF ~check_permission(optUser[1], REVOKE_TOKEN)
           THEN resp' = Response("403", <<>>) /\ UNCHANGED tokenCall
           ELSE /\ tokenCall' = [tokenCall EXCEPT ![s] =
                        [pc |-> "next", id |-> strTokenId,
                         todo |-> <<MethodCall(REVOKE, 0)>>, route |-> "revoke"]]
                /\ UNCHANGED resp
    /\ UNCHANGED <<tokens, issuedLog, now, tokenRet>>
    /\ UNCHANGED tokenFrame

\* the methods PATCH /admin/tokens/{token_id} calls for a request, in order
UpdateCalls(request) ==
    (IF request.is_active = Nothing THEN <<>>
     ELSE IF request.is_active[1] THEN <<MethodCall(ENABLE, 0)>>
     ELSE <<MethodCall(DISABLE, 0)>>)
    \o (IF request.rate_limit = Nothing THEN <<>>
        ELSE <<MethodCall(RATE, request.rate_limit[1])>>)

\* PATCH /admin/tokens/{token_id} up to the route's own get_token_by_id
update_token_route(s, strToken, strTokenId, request) ==
    /\ tokenCall[s].pc = "idle"
    /\ LET optUser == validate_token(tokens, now, strToken)
       IN  IF optUser = Nothing
           THEN resp' = Response("401", <<>>) /\ UNCHANGED tokenCall
           ELSE IF ~check_permission(optUser[1], MODIFY_TOKEN)
           THEN resp' = Response("403", <<>>) /\ UNCHANGED tokenCall
           ELSE IF ~token_found(tokens, strTokenId)
           THEN resp' = Response("404", <<>>) /\ UNCHANGED tokenCall
           ELSE IF UpdateCalls(request) = <<>>
           THEN resp' = Response("200", <<>>) /\ UNCHANGED tokenCall
           ELSE /\ tokenCall' = [tokenCall EXCEPT ![s] =
                        [pc |-> "next", id |-> strTokenId,
                         todo |-> UpdateCalls(request), route |-> "update"]]
                /\ UNCHANGED resp
    /\ UNCHANGED <<tokens, issuedLog, now, tokenRet>>
    /\ UNCHANGED tokenFrame

\* a day passes
tick ==
    /\ now < MaxClock
    /\ now' = now + 1
    /\ UNCHANGED <<tokens, issuedLog, tokenCall, tokenRet, resp>>
    /\ UNCHANGED tokenFrame

TokenNext ==
    \/ \E u \in TokenUserIds, r \in CliRoleInputs, e \in ExpiresInputs :
          cli_create_token(u, r, e, Nothing)
    \/ \E s \in TokenCallers, t \in TokenStrings, request \in CreateTokenRequests :
          create_token_route(s, t, request)
    \/ \E s \in TokenCallers : create_token_route_answer(s)
    \/ \E s \in TokenCallers, t \in TokenStrings, i \in TokenIds :
          revoke_token_route(s, t, i)
    \/ \E s \in TokenCallers, t \in TokenStrings, i \in TokenIds,
          request \in UpdateTokenRequests : update_token_route(s, t, i, request)
    \/ \E op \in {REVOKE, DISABLE, ENABLE}, i \in TokenIds : cli_token_cmd(op, i)
    \/ \E s \in TokenCallers : token_method_enter(s)
    \/ \E s \in TokenCallers : token_method_write(s)
    \/ \E t \in TokenStrings : get_current_user(t)
    \/ tick

TokenSpec == Init /\ [][TokenNext]_vars

\* C19: no request to POST /admin/tokens, whoever sends it, adds a token of
\* role admin to the table tokens: every row a route has inserted has another
\* role, and a request for role admin of an authenticated caller is answered
\* 403 and leaves the table as it was.
C19_NoAdminTokenThroughApi ==
    /\ [](\A c \in DOMAIN tokens :
             tokens[c].created_by # Nothing => tokens[c].role # ADMIN)
    /\ [][\A s \in TokenCallers, t \in TokenStrings, request \in CreateTokenRequests :
            create_token_route(s, t, request)
               => /\ \A c \in DOMAIN tokens' \ DOMAIN tokens : tokens'[c].role # ADMIN
                  /\ (/\ validate_token(tokens, now, t) # Nothing
                      /\ RoleOf(request.role) = Some(ADMIN))
                        => resp'.code = "403" /\ tokens' = tokens]_vars

\* the only token ever created is of role admin, made by the CLI, and a
\* request has been answered 403: its holder asked the route for a token of
\* role admin
C19_Witness ==
    /\ Len(issuedLog) = 1
    /\ 1 \in DOMAIN tokens
    /\ tokens[1].role = ADMIN
    /\ tokens[1].created_by = Nothing
    /\ resp.code = "403"

\* token c has been created and revoked
Revoked(c) == c \in 1..Len(issuedLog) /\ c \notin DOMAIN tokens

\* token c is stored, active and not past its expiry
StoredActiveUnexpired(c) ==
    /\ c \in DOMAIN tokens
    /\ tokens[c].is_active = 1
    /\ tokens[c].expires_at = Nothing \/ now <= tokens[c].expires_at[1]

\* C20: validate_token of the secret of a created token returns a User exactly
\* when the token is stored, active and not past its expiry, and the User has
\* the role the token was created with and the rate limit of its row; a
\* revoked token stays revoked, and a method called for it returns False; a
\* disabled token turns active only by enable_token.
C20_ValidateFollowsTokenState ==
    /\ [](\A c \in 1..Len(issuedLog) :
             LET optUser == validate_token(tokens, now, issuedLog[c].strToken)
             IN  /\ optUser # Nothing <=> StoredActiveUnexpired(c)
                 /\ optUser # Nothing
                       => /\ optUser[1].strTokenId = c
                          /\ optUser[1].role = issuedLog[c].role
                          /\ optUser[1].intRateLimit = tokens[c].rate_limit)
    /\ [][/\ \A c \in TokenIds :
               /\ Revoked(c) => c \notin DOMAIN tokens'
               /\ (/\ c \in DOMAIN tokens /\ c \in DOMAIN tokens'
                   /\ tokens[c].is_active = 0 /\ tokens'[c].is_active = 1)
                     => \/ cli_token_cmd(ENABLE, c)
                        \/ \E s \in TokenCallers :
                              /\ token_method_write(s)
                              /\ tokenCall[s].id = c
                              /\ Head(tokenCall[s].todo).op = ENABLE
               /\ Revoked(c)
                     => /\ \A op \in {REVOKE, DISABLE, ENABLE} :
                              cli_token_cmd(op, c)
                                 => tokenRet' = [id |-> c, ret |-> "False"]
                        /\ \A s \in TokenCallers :
                              (token_method_enter(s) /\ tokenCall[s].id = c)
                                 => /\ tokenRet' = [id |-> c, ret |-> "False"]
                                    /\ tokens' = tokens
          /\ \A t \in TokenStrings :
               get_current_user(t)
                  => (resp'.code = "200"
                        <=> \E c \in 1..Len(issuedLog) :
                               /\ t = issuedLog[c].strToken
                               /\ StoredActiveUnexpired(c))]_vars

\* one token has been revoked and a method called for it afterwards returned
\* False; another is stored with a rate limit that update_rate_limit gave it,
\* and validate_token returns its User
C20_Witness ==
    \E c, d \in 1..Len(issuedLog) :
        /\ Revoked(d)
        /\ tokenRet = [id |-> d, ret |-> "False"]
        /\ StoredActiveUnexpired(c)
        /\ tokens[c].rate_limit # dictRateLimits[tokens[c].role]
        /\ validate_token(tokens, now, issuedLog[c].strToken) # Nothing
        /\ now = MaxClock

(***************************************************************************)
(* auth/rate_limiter.py, InMemoryRateLimiter: a sliding window of one      *)
(* minute per token_id.  check_rate_limit has no await in its body, so a   *)
(* call is one step of the event loop and concurrent callers of one        *)
(* process interleave only between calls.  Time is counted in seconds.     *)
(***************************************************************************)
Window == 60

\* the clock moves by half a window, or by a second less: two timestamps
\* can lie 59 seconds apart, or exactly 60
LimTicks == {Window \div 2 - 1, Window \div 2}

\* the user a credential authenticates as: token_id and its quota
LimUser(c) == [strTokenId |-> c, intRateLimit |-> c]

\* the timestamps of a list that are later than datetimeWindowStart
PruneOld(listRequests, datetimeNow) ==
    SelectSeq(listRequests, LAMBDA ts : ts > datetimeNow - Window)

\* a limiter that compares with > and so lets one request more through
allowed_one_more(listPruned, intRateLimit) == ~(Len(listPruned) > intRateLimit)

\* the answer of check_rate_limit on a pruned list
allowed(listPruned, intRateLimit) == ~(Len(listPruned) >= intRateLimit)

\* a limiter that keeps one list for every credential
requests_after_shared(dict, strTokenId, intRateLimit, datetimeNow) ==
    LET listPruned == PruneOld(dict[strTokenId], datetimeNow)
        listNew == IF allowed(listPruned, intRateLimit)
                   THEN Append(listPruned, datetimeNow)
                   ELSE listPruned
    IN  [c \in DOMAIN dict |-> listNew]

\* dictRequests after a call for strTokenId at datetimeNow
requests_after(dict, strTokenId, intRateLimit, datetimeNow) ==
    LET listPruned == PruneOld(dict[strTokenId], datetimeNow)
    IN  [dict EXCEPT ![strTokenId] =
            IF allowed(listPruned, intRateLimit)
            THEN Append(listPruned, datetimeNow)
            ELSE listPruned]

\* what a call for credential c would answer in this state
Decision(dict, c, datetimeNow) ==
    allowed(PruneOld(dict[c], datetimeNow), LimUser(c).intRateLimit)

\* the observer's log of credential c after a call at datetimeNow that
\* answered boolRet: a span begins with a call that finds no admitted request
\* in the last minute, and lasts one minute
LogAfterCall(log, boolRet, datetimeNow, intRateLimit) ==
    LET recent == PruneOld(log.admits, datetimeNow)
        boolNewSpan == \/ log.spanCalls = 0
                       \/ /\ datetimeNow >= log.spanStart + Window
                          /\ recent = <<>>
        boolInSpan == datetimeNow < log.spanStart + Window
    IN  [admits    |-> IF boolRet THEN Append(recent, datetimeNow) ELSE recent,
         spanStart |-> IF boolNewSpan THEN datetimeNow ELSE log.spanStart,
         spanCalls |-> IF boolNewSpan THEN 1
                       ELSE IF boolInSpan
                            THEN Min(log.spanCalls + 1, intRateLimit + 1)
                            ELSE log.spanCalls]

limFrame == <<jobs, resultFiles, cancelCall, workerVars, accessVars, tokenVars,
              redisVars, mwOut, sbx, storeVars, lateVars>>

\* InMemoryRateLimiter.check_rate_limit(user)
check_rate_limit(c) ==
    LET user == LimUser(c)
        listPruned == PruneOld(dictRequests[c], limNow)
        boolRet == allowed(listPruned, user.intRateLimit)
    IN  /\ dictRequests' = requests_after(dictRequests, user.strTokenId,
                                          user.intRateLimit, limNow)
        /\ limRet' = [id |-> c, ret |-> boolRet]
        /\ limLog' = [limLog EXCEPT
                         ![c] = LogAfterCall(@, boolRet, limNow, user.intRateLimit)]
        /\ UNCHANGED limNow
        /\ UNCHANGED limFrame

\* time passes between two calls
lim_tick(d) ==
    /\ limNow + d <= MaxLimClock
    /\ limNow' = limNow + d
    /\ limLog' = [c \in LimCreds |->
                     [limLog[c] EXCEPT !.admits = PruneOld(@, limNow + d)]]
    /\ UNCHANGED <<dictRequests, limRet>>
    /\ UNCHANGED limFrame

LimiterNext ==
    \/ \E c \in LimCreds : check_rate_limit(c)
    \/ \E d \in LimTicks : lim_tick(d)

LimiterSpec == Init /\ [][LimiterNext]_vars

\* C21: of the calls for one credential within one 60-second span that began
\* on an empty record exactly the first Q answer true and the later ones
\* false; the requests admitted in the trailing 60 seconds never exceed Q;
\* a rejected call leaves the recorded requests of the window as they were.
C21_FirstQuotaAdmitted ==
    /\ [](\A c \in LimCreds : Len(limLog[c].admits) <= LimUser(c).intRateLimit)
    /\ [][\A c \in LimCreds :
            check_rate_limit(c) =>
               /\ limNow < limLog'[c].spanStart + Window
                     => (limRet'.ret <=>
                            limLog'[c].spanCalls <= LimUser(c).intRateLimit)
               /\ ~limRet'.ret =>
                     PruneOld(dictRequests'[c], limNow)
                        = PruneOld(dictRequests[c], limNow)]_vars

C21_Witness ==
    /\ limRet = [id |-> MaxQuota, ret |-> FALSE]
    /\ limLog[MaxQuota].spanCalls = MaxQuota + 1
    /\ Len(limLog[MaxQuota].admits) = MaxQuota

\* C22: a call for credential A leaves the recorded requests of every other
\* credential B, and the answer a later call for B gets, unchanged.
C22_PerCredentialState ==
    [][\A a \in LimCreds :
          check_rate_limit(a) =>
             \A b \in LimCreds \ {a} :
                /\ dictRequests'[b] = dictRequests[b]
                /\ Decision(dictRequests', b, limNow')
                      = Decision(dictRequests, b, limNow)]_vars

C22_Witness ==
    /\ limRet = [id |-> 1, ret |-> FALSE]
    /\ Len(dictRequests[1]) = 1
    /\ Len(dictRequests[2]) = 1
    /\ Decision(dictRequests, 2, limNow)

(***************************************************************************)
(* auth/rate_limiter.py, RedisRateLimiter: a counter per token_id and      *)
(* minute in a Redis that several server processes share.  A call computes *)
(* its key from the clock, awaits INCR, awaits EXPIRE when the count is 1, *)
(* and answers count <= quota; the other processes and the clock move at   *)
(* each await.  A key with a time to live is gone once the time has come.  *)
(***************************************************************************)
FailModes == {"open", "closed"}

\* the credential whose counter the processes share
RlCreds == {MaxQuota}

\* a limiter that lets every request through when Redis cannot be asked
fail_answer_always_open(strFailMode) == TRUE

\* the answer when Redis cannot be asked: True for "open", else False
fail_answer(strFailMode) == IF strFailMode = "open" THEN TRUE ELSE FALSE

\* intWindowStart of a call at datetimeNow
WindowOf(datetimeNow) == datetimeNow \div 60

\* the answer on a count
count_allowed(intCurrentCount, intRateLimit) == intCurrentCount <= intRateLimit

\* Redis drops the keys whose time to live is over at time t
Purge(keys, t) ==
    [k \in DOMAIN keys |->
        IF keys[k].exp # <<>> /\ t >= keys[k].exp[1]
        THEN [n |-> 0, exp |-> <<>>]
        ELSE keys[k]]

redisFrame == <<jobs, resultFiles, cancelCall, workerVars, accessVars, tokenVars,
                dictRequests, limRet, limLog, mwOut, sbx, storeVars, lateVars>>

\* the call of process p is over with answer boolRet
RlReturn(p, strKind, boolRet, boolAvail) ==
    /\ rlProc' = [rlProc EXCEPT ![p].pc = "idle", ![p].avail = boolAvail]
    /\ rlRet' = [proc |-> p, kind |-> strKind, ret |-> boolRet]

\* RedisRateLimiter(strRedisUrl, strFailMode) and connect(): ping; a failure
\* marks Redis unavailable
rl_connect(p, strFailMode) ==
    /\ rlProc[p].pc = "new"
    /\ rlProc' = [rlProc EXCEPT ![p].pc = "idle", ![p].mode = strFailMode,
                                ![p].avail = redisUp]
    /\ UNCHANGED <<redisUp, redisKeys, rlRet, rlLog, limNow>>
    /\ UNCHANGED redisFrame

\* mutant: a limiter marked unavailable asks Redis again once it answers
skips_backend_while_down(boolRedisAvailable) == ~boolRedisAvailable /\ ~redisUp

\* "if not self._boolRedisAvailable": the call does not reach Redis
skips_backend(boolRedisAvailable) == ~boolRedisAvailable

\* check_rate_limit up to its first await: the answer of the fail mode when
\* Redis is marked unavailable, else the key of the current window
rl_enter(p, c) ==
    /\ rlProc[p].pc = "idle"
    /\ redisKeys[<<c, WindowOf(limNow)>>].n <= LimUser(c).intRateLimit
    /\ IF skips_backend(rlProc[p].avail)
       THEN RlReturn(p, "unavailable", fail_answer(rlProc[p].mode), FALSE)
       ELSE /\ rlProc' = [rlProc EXCEPT ![p].pc = "incr", ![p].cred = c,
                                        ![p].win = WindowOf(limNow)]
            /\ UNCHANGED rlRet
    /\ UNCHANGED <<redisUp, redisKeys, rlLog, limNow>>
    /\ UNCHANGED redisFrame

\* await incr(strKey): Redis counts; a count of 1 goes on to EXPIRE, a larger
\* one is answered; an exception marks Redis unavailable
rl_incr(p) ==
    LET k == <<rlProc[p].cred, rlProc[p].win>>
        intCurrentCount == redisKeys[k].n + 1
        boolRet == count_allowed(intCurrentCount, LimUser(k[1]).intRateLimit)
    IN  /\ rlProc[p].pc = "incr"
        /\ IF redisUp
           THEN /\ redisKeys' = [redisKeys EXCEPT ![k].n = intCurrentCount]
                /\ IF intCurrentCount = 1
                   THEN /\ rlProc' = [rlProc EXCEPT ![p].pc = "expire"]
                        /\ UNCHANGED <<rlRet, rlLog>>
                   ELSE /\ RlReturn(p, "counted", boolRet, TRUE)
                        /\ rlLog' = [rlLog EXCEPT
                                        ![k] = IF boolRet THEN @ + 1 ELSE @]
           ELSE /\ RlReturn(p, "failed", fail_answer(rlProc[p].mode), FALSE)
                /\ UNCHANGED <<redisKeys, rlLog>>
        /\ UNCHANGED <<redisUp, limNow>>
        /\ UNCHANGED redisFrame

\* await expire(strKey, 60), then the answer on the count 1
rl_expire(p) ==
    LET k == <<rlProc[p].cred, rlProc[p].win>>
        boolRet == count_allowed(1, LimUser(k[1]).intRateLimit)
    IN  /\ rlProc[p].pc = "expire"
        /\ IF redisUp
           THEN /\ redisKeys' = [redisKeys EXCEPT
                                    ![k].exp = IF redisKeys[k].n > 0
                                               THEN <<limNow + 60>> ELSE @]
                /\ RlReturn(p, "counted", boolRet, TRUE)
                /\ rlLog' = [rlLog EXCEPT ![k] = IF boolRet THEN @ + 1 ELSE @]
           ELSE /\ RlReturn(p, "failed", fail_answer(rlProc[p].mode), FALSE)
                /\ UNCHANGED <<redisKeys, rlLog>>
        /\ UNCHANGED <<redisUp, limNow>>
        /\ UNCHANGED redisFrame

\* Redis stops answering, or answers again
redis_toggle ==
    /\ redisUp' = ~redisUp
    /\ UNCHANGED <<redisKeys, rlProc, rlRet, rlLog, limNow>>
    /\ UNCHANGED redisFrame

\* time passes, and Redis drops the keys whose time has come
rl_tick(d) ==
    /\ limNow + d <= MaxLimClock
    /\ limNow' = limNow + d
    /\ redisKeys' = Purge(redisKeys, limNow + d)
    /\ UNCHANGED <<redisUp, rlProc, rlRet, rlLog>>
    /\ UNCHANGED redisFrame

RedisNext ==
    \/ \E p \in RlProcs : \E m \in FailModes : rl_connect(p, m)
    \/ \E p \in RlProcs : \E c \in RlCreds : rl_enter(p, c)
    \/ \E p \in RlProcs : rl_incr(p)
    \/ \E p \in RlProcs : rl_expire(p)
    \/ redis_toggle
    \/ rl_tick(Window \div 2)

RedisSpec == Init /\ [][RedisNext]_vars

\* C23: across all processes, at most quota calls are admitted on the count
\* of one window key of a credential.
C23_AtMostQuotaPerWindow ==
    \A k \in LimCreds \X RlWindows : rlLog[k] <= LimUser(k[1]).intRateLimit

\* C24: a check that finds Redis marked unavailable, or whose own INCR or
\* EXPIRE fails, answers True in fail mode "open" and False in "closed",
\* whatever the quota and the counts are; so does every check after a
\* connect() that failed.
C24_FailModeAnswer ==
    [][\A p \in RlProcs :
          /\ \/ \E c \in RlCreds : rl_enter(p, c)
             \/ rl_incr(p)
             \/ rl_expire(p)
          /\ rlProc'[p].pc = "idle"
          /\ ~redisUp \/ ~rlProc[p].avail
          => /\ rlRet'.proc = p
             /\ rlRet'.ret = (rlProc[p].mode = "open")
             /\ rlRet'.kind # "counted"
             /\ redisKeys' = redisKeys]_vars

C24_Witness ==
    /\ rlRet = [proc |-> 1, kind |-> "failed", ret |-> TRUE]
    /\ rlProc[1].mode = "open"
    /\ rlProc[2].mode = "closed"
    /\ ~rlProc[2].avail
    /\ redisKeys[<<MaxQuota, 0>>].n = 1

(***************************************************************************)
(* api/middleware.py, rate_limit_middleware, in front of the routes of     *)
(* api/main.py.  A request carries a path, a method and an Authorization   *)
(* header <<scheme, token>> (<<>> when it has none).  The routes           *)
(* authenticate with HTTPBearer and get_current_user (api/dependencies.py),*)
(* which compares the scheme without regard to case.                       *)
(***************************************************************************)
listPublicPaths == {"/health", "/ready", "/docs", "/openapi.json"}

RequestPaths == {"/health", "/jobs"}
RequestMethods == {"GET", "OPTIONS"}
AuthHeaders ==
    {<<>>} \cup {<<sch, t>> : sch \in {"Bearer", "bearer"}, t \in TokenStrings}

\* str.lower() on the schemes a request carries
Lower(strScheme) == IF strScheme = "Bearer" THEN "bearer" ELSE strScheme

\* strAuthHeader.startswith("Bearer ")
startswith_Bearer(header) == header # <<>> /\ header[1] = "Bearer"

\* HTTPBearer: the credentials of a header whose scheme is bearer in any case
HTTPBearer(header) ==
    IF header # <<>> /\ Lower(header[1]) = "bearer" THEN Some(header[2]) ELSE Nothing

\* get_current_user of the route: Some(User) or Nothing for 401
route_user(toks, clock, header) ==
    IF HTTPBearer(header) = Nothing THEN Nothing
    ELSE validate_token(toks, clock, HTTPBearer(header)[1])

\* call_next(request): a public path answers without a user; OPTIONS matches
\* no route; every other route authenticates, then checks the permission and
\* reads or writes the job store.  calls counts the times a route was run.
call_next(out, toks, clock, header) ==
    IF out.path \in listPublicPaths
    THEN [out EXCEPT !.handler = TRUE, !.code = "200", !.calls = @ + 1]
    ELSE IF out.method = "OPTIONS"
    THEN [out EXCEPT !.code = "405"]
    ELSE IF route_user(toks, clock, header) = Nothing
    THEN [out EXCEPT !.handler = TRUE, !.code = "401", !.calls = @ + 1]
    ELSE [out EXCEPT !.handler = TRUE, !.authed = TRUE, !.code = "200",
                     !.calls = @ + 1]

\* what can go wrong while one request is served: nothing, validate_token
\* raises inside the middleware, the route's handler raises, or
\* log_token_usage raises after the route has answered
MwFaults == {"none", "validate_token", "handler", "log_token_usage"}

\* "response = await call_next(request)" and what follows it inside the try:
\* an exception of the handler comes out of call_next, one of log_token_usage
\* comes after it, and the except clause answers either with
\* "return await call_next(request)"
handed_on(out, toks, clock, header, strFault) ==
    LET first == call_next(out, toks, clock, header)
        boolHandlerRaised == strFault = "handler" /\ first.authed
        boolLogFailed == strFault = "log_token_usage" /\ out.limiter = "allowed"
    IN  IF boolHandlerRaised
        THEN [call_next(first, toks, clock, header) EXCEPT !.code = "500"]
        ELSE IF boolLogFailed
        THEN call_next(first, toks, clock, header)
        ELSE first

\* the 429 of the middleware
RateLimited(out) ==
    [out EXCEPT !.limiter = "rejected", !.code = "429", !.retryAfter = <<"60">>]

\* whether the middleware goes on to the limiter, and for which user:
\* Nothing where it hands the request on without asking
limited_user(strPath, strMethod, header, toks, clock, boolRaises) ==
    IF strPath \in listPublicPaths \/ strMethod = "OPTIONS" THEN Nothing
    ELSE IF ~startswith_Bearer(header) THEN Nothing
    ELSE IF boolRaises THEN Nothing
    ELSE validate_token(toks, clock, header[2])

mwFrame == <<jobs, resultFiles, cancelCall, workerVars, accessVars, redisVars,
             limNow, limRet, limLog, sbx, storeVars, lateVars>>

\* one request through rate_limit_middleware and, where the middleware hands
\* it on, the route; strFault: what raises while it is served (when
\* validate_token raises inside the middleware the except branch hands the
\* request on)
rate_limit_middleware(strPath, strMethod, header, strFault) ==
    LET out0 == [NoRequest EXCEPT
                    !.path = strPath, !.method = strMethod,
                    !.valid = route_user(tokens, now, header) # Nothing]
        optUser == limited_user(strPath, strMethod, header, tokens, now,
                                strFault = "validate_token")
    IN  /\ IF optUser = Nothing
           THEN /\ mwOut' = handed_on([out0 EXCEPT !.limiter = "skipped"],
                                      tokens, now, header, strFault)
                /\ UNCHANGED dictRequests
           ELSE /\ optUser[1].strTokenId \in DOMAIN dictRequests
                /\ dictRequests' =
                      requests_after(dictRequests, optUser[1].strTokenId,
                                     optUser[1].intRateLimit, limNow)
                /\ mwOut' =
                      IF allowed(PruneOld(dictRequests[optUser[1].strTokenId], limNow),
                                 optUser[1].intRateLimit)
                      THEN handed_on([out0 EXCEPT !.limiter = "allowed"],
                                     tokens, now, header, strFault)
                      ELSE RateLimited(out0)
        /\ UNCHANGED tokenVars
        /\ UNCHANGED mwFrame

\* the operator issues a token with a quota of one request per minute
mw_issue_token(strUserId, strRole) ==
    /\ Len(issuedLog) < Min(MaxTokens, MaxQuota)
    /\ cli_create_token(strUserId, strRole, Nothing, Some(1))

MiddlewareNext ==
    \/ \E h \in AuthHeaders : \E pth \in RequestPaths : \E m \in RequestMethods :
          \E strFault \in MwFaults : rate_limit_middleware(pth, m, h, strFault)
    \/ \E u \in TokenUserIds : \E r \in CliRoleInputs : mw_issue_token(u, r)

MiddlewareSpec == Init /\ [][MiddlewareNext]_vars

\* C25: a request with a valid credential to a non-public path reaches the
\* route's permission check only after the limiter was asked and let it
\* pass; a request the limiter rejects gets the rate-limit error with the
\* retry hint and never reaches the route.
C25_LimiterBeforeHandler ==
    /\ (mwOut.valid /\ mwOut.authed /\ mwOut.path \notin listPublicPaths)
          => mwOut.limiter = "allowed"
    /\ mwOut.limiter = "rejected"
          => /\ mwOut.code = "429"
             /\ mwOut.retryAfter = <<"60">>
             /\ ~mwOut.handler
             /\ ~mwOut.authed

(***************************************************************************)
(* security/sandbox.py, PDFSandbox.extract_pdf: the extraction runs in a   *)
(* worker of a ProcessPoolExecutor opened by a with statement; the caller  *)
(* waits in future.result(timeout).  On FutureTimeoutError it calls        *)
(* future.cancel(), which does nothing to a call that is running, and      *)
(* raises; leaving the with block is executor.shutdown(wait=True), which   *)
(* returns when the worker has finished.  The worker sets RLIMIT_CPU only  *)
(* when cpu_limit_seconds is given.  Time is counted in seconds.           *)
(***************************************************************************)
\* the seconds the caller may stay beyond the timeout
Overshoot == 1

SbTimeouts == {1, 2, 3}
\* the seconds the extraction takes; <<>> for one that never finishes
SbWorks == {<<1>>, <<2>>, <<MaxSbClock - 1>>, <<>>}
\* cpu_limit_seconds; <<>> for None
SbCpuLimits == {<<>>, <<2>>}

sbFrame == <<jobs, resultFiles, cancelCall, workerVars, accessVars, tokenVars,
             limVars, redisVars, mwOut, storeVars, lateVars>>

\* extract_pdf up to future.result: SandboxError when the file is missing,
\* else the worker is started
extract_pdf(boolExists, intTimeout, optWork, boolBusy, optCpuLimit) ==
    /\ sbx.pc \in {"idle", "returned", "raised"}
    /\ sbx' = IF ~boolExists
              THEN [SbIdle EXCEPT !.pc = "raised", !.out = "SandboxError"]
              ELSE [SbIdle EXCEPT !.pc = "waiting", !.child = "running",
                                  !.timeout = intTimeout, !.work = optWork,
                                  !.busy = boolBusy, !.cpu = optCpuLimit]
    /\ UNCHANGED sbFrame

\* a second passes while the caller is blocked (the caller moves on at once
\* when the wait it is in is over); the worker finishes when its work is
\* done, and the kernel kills a worker that has used its CPU limit
sb_tick ==
    /\ sbx.child = "running"
    /\ \/ sbx.pc = "waiting" /\ sbx.elapsed < sbx.timeout
       \/ sbx.pc = "exiting"
    /\ sbx.elapsed < MaxSbClock
    /\ sbx' = [sbx EXCEPT
                 !.elapsed = @ + 1,
                 !.child = IF sbx.child # "running" THEN @
                           ELSE IF sbx.work # <<>> /\ sbx.elapsed + 1 >= sbx.work[1]
                           THEN "done"
                           ELSE IF /\ sbx.busy
                                   /\ sbx.cpu # <<>>
                                   /\ sbx.elapsed + 1 >= sbx.cpu[1]
                           THEN "killed"
                           ELSE @]
    /\ UNCHANGED sbFrame

\* future.result(timeout) ends: with the result, with the exception of a
\* broken pool, or with FutureTimeoutError after future.cancel()
sb_result ==
    /\ sbx.pc = "waiting"
    /\ \/ /\ sbx.child = "done"
          /\ sbx' = [sbx EXCEPT !.pc = "exiting", !.pending = "PDFExtraction"]
       \/ /\ sbx.child = "killed"
          /\ sbx' = [sbx EXCEPT !.pc = "exiting", !.pending = "SandboxError"]
       \/ /\ sbx.child = "running"
          /\ sbx.elapsed >= sbx.timeout
          /\ sbx' = [sbx EXCEPT !.pc = "exiting", !.pending = "SandboxError"]
    /\ UNCHANGED sbFrame

\* the with block is left: shutdown(wait=True) returns once the worker is
\* no longer running, and the result or the exception reaches the caller
sb_exit ==
    /\ sbx.pc = "exiting"
    /\ sbx.child # "running"
    /\ sbx' = [sbx EXCEPT
                 !.pc = IF sbx.pending = "PDFExtraction" THEN "returned" ELSE "raised",
                 !.out = sbx.pending]
    /\ UNCHANGED sbFrame

SandboxNext ==
    \/ \E boolExists \in BOOLEAN : \E t \in SbTimeouts : \E w \in SbWorks :
          \E boolBusy \in BOOLEAN : \E c \in SbCpuLimits :
             extract_pdf(boolExists, t, w, boolBusy, c)
    \/ sb_tick
    \/ sb_result
    \/ sb_exit

SandboxSpec == Init /\ [][SandboxNext]_vars

\* C26: extract_pdf is back with its caller within a bounded overshoot of
\* the timeout, also when the worker never finishes.
C26_ReturnsWithinOvershoot ==
    sbx.pc \in {"waiting", "exiting"} => sbx.elapsed <= sbx.timeout + Overshoot

(***************************************************************************)
(* jobs/queue.py, create_job as the event loop runs it: generate_job_id,   *)
(* then a loop of SELECTs (each an await) that draws a new identifier when *)
(* the drawn one is taken, RuntimeError after ten draws, and the INSERT.   *)
(* The table jobs keeps job_id unique (a job has a unique identifier), so  *)
(* an INSERT under an identifier that is present raises IntegrityError and *)
(* inserts nothing.                                                        *)
(***************************************************************************)
MaxAttempts == 10

\* what create_job is called with: owner, path of the PDF, options
CreateInputs ==
    {[owner |-> "alice", pdfPath |-> "/uploads/a.pdf",
      options |-> [output_format |-> "markdown"]],
     [owner |-> "bob", pdfPath |-> "/uploads/b.pdf",
      options |-> [output_format |-> "html"]]}

\* json.dumps(dictOptions): the text of the dictionary
json_dumps(dictOptions) == <<"json", dictOptions>>

\* an INSERT that writes the owner into the column pdf_path as well
JobRow_path_lost(strOwnerUserId, strPdfPath, strOptionsJson, createdAt) ==
    NewJobRow(strOwnerUserId, createdAt)
       @@ [pdfPath |-> strOwnerUserId, options |-> strOptionsJson]

\* the row the INSERT of create_job writes: the columns it names, every
\* other column NULL
JobRow(strOwnerUserId, strPdfPath, strOptionsJson, createdAt) ==
    NewJobRow(strOwnerUserId, createdAt)
       @@ [pdfPath |-> strPdfPath, options |-> strOptionsJson]

\* a SELECT that always finds the identifier free
select_free_always(js, strJobId) == TRUE

\* SELECT job_id FROM jobs WHERE job_id = ?: "row is None"
select_free(js, strJobId) == ~job_found(js, strJobId)

\* the uniqueness of job_id in the table: an INSERT goes through only under
\* an identifier that is not present
insert_accepted(js, strJobId) == strJobId \notin DOMAIN js

createFrame == <<resultFiles, cancelCall, workerVars, accessVars, tokenVars,
                 limVars, redisVars, mwOut, sbx, throttleCall, lateVars>>

\* create_job up to its first await: generate_job_id() draws strJobId
create_job_enter(s, in, strJobId) ==
    /\ createCall[s].pc = "idle"
    /\ createCall' = [createCall EXCEPT ![s] =
          [pc |-> "select", id |-> strJobId, attempts |-> 0,
           owner |-> in.owner, pdfPath |-> in.pdfPath,
           options |-> json_dumps(in.options), ret |-> <<>>]]
    /\ UNCHANGED <<jobs, insertLog>>
    /\ UNCHANGED createFrame

\* one turn of the while loop: the SELECT; a free identifier leaves the loop,
\* a taken one is replaced by a new draw; after the tenth draw RuntimeError
create_job_select(s, strNewId) ==
    LET call == createCall[s]
    IN  /\ call.pc = "select"
        /\ createCall' = [createCall EXCEPT ![s] =
              IF select_free(jobs, call.id)
              THEN [call EXCEPT !.pc = "insert"]
              ELSE IF call.attempts + 1 = MaxAttempts
              THEN IdleCreate(<<"RuntimeError">>)
              ELSE [call EXCEPT !.id = strNewId, !.attempts = @ + 1]]
        /\ UNCHANGED <<jobs, insertLog>>
        /\ UNCHANGED createFrame

\* the INSERT and the return of strJobId
create_job_insert(s) ==
    LET call == createCall[s]
    IN  /\ call.pc = "insert"
        /\ IF insert_accepted(jobs, call.id)
           THEN /\ jobs' = jobs @@ (call.id :>
                               JobRow(call.owner, call.pdfPath, call.options,
                                      Cardinality(DOMAIN jobs) + 1))
                /\ insertLog' = Append(insertLog, call.id)
                /\ createCall' = [createCall EXCEPT
                                     ![s] = IdleCreate(<<"id", call.id>>)]
           ELSE /\ createCall' = [createCall EXCEPT
                                     ![s] = IdleCreate(<<"IntegrityError">>)]
                /\ UNCHANGED <<jobs, insertLog>>
        /\ UNCHANGED createFrame

CreateNext ==
    \/ \E s \in Creators : \E in \in CreateInputs : \E j \in JobIds :
          create_job_enter(s, in, j)
    \/ \E s \in Creators : \E j \in JobIds : create_job_select(s, j)
    \/ \E s \in Creators : create_job_insert(s)

CreateSpec == Init /\ [][CreateNext]_vars

C28_CreateJobEffect ==
    [][\A s \in Creators :
          (create_job_insert(s) /\ createCall'[s].ret # <<"IntegrityError">>)
             => LET call == createCall[s]
                    new == jobs'[call.id]
                IN  /\ createCall'[s].ret = <<"id", call.id>>
                    /\ call.id \notin DOMAIN jobs
                    /\ DOMAIN jobs' = DOMAIN jobs \cup {call.id}
                    /\ \A j \in DOMAIN jobs : jobs'[j] = jobs[j]
                    /\ \E in \in CreateInputs :
                          /\ new.owner = in.owner
                          /\ new.pdfPath = in.pdfPath
                          /\ new.options = json_dumps(in.options)
                    /\ new.owner = call.owner
                    /\ new.pdfPath = call.pdfPath
                    /\ new.options = call.options
                    /\ new.status = PENDING
                    /\ new.throttled = FALSE
                    /\ new.throttledBy = NoneVal
                    /\ new.startedAt = NoneVal
                    /\ new.completedAt = NoneVal
                    /\ new.resultPath = NoPath
                    /\ new.errorMessage = NoneVal
                    /\ grants' = grants]_vars

C28_Witness ==
    /\ DOMAIN jobs = JobIds
    /\ jobs[1].owner = "alice"
    /\ jobs[MaxJobs].owner = "bob"
    /\ jobs[MaxJobs].pdfPath = "/uploads/b.pdf"
    /\ \E s \in Creators : createCall[s].ret = <<"id", MaxJobs>>

(***************************************************************************)
(* jobs/queue.py, update_job_status and throttle_job on rows with every    *)
(* column.  throttle_job is get_job, an await, and one UPDATE that writes  *)
(* throttled and throttled_by together; two calls interleave between the   *)
(* two.  Rows are never deleted, so what get_job found holds at the        *)
(* UPDATE; update_job_status is taken as one step.                         *)
(***************************************************************************)
StorePrincipals == {"admin-user", "ops-user"}
StoreStatuses == {RUNNING, COMPLETED, FAILED}
StoreErrTexts == {"PDF validation failed"}

\* an UPDATE that leaves throttled_by as it is when the flag is cleared
throttle_update_keeps_principal(js, j, boolThrottled, strUserId) ==
    [js EXCEPT ![j].throttled = boolThrottled,
               ![j].throttledBy = IF boolThrottled THEN strUserId ELSE @]

\* UPDATE jobs SET throttled = ?, throttled_by = ? WHERE job_id = ?
throttle_update(js, j, boolThrottled, strUserId) ==
    [js EXCEPT ![j].throttled = boolThrottled,
               ![j].throttledBy = IF boolThrottled THEN strUserId ELSE NoneVal]

storeFrame == <<resultFiles, cancelCall, workerVars, accessVars, tokenVars,
                limVars, redisVars, mwOut, sbx, createCall, insertLog, lateVars>>

\* create_job with no other call between its steps
store_create_job(j, in) ==
    /\ j \in JobIds
    /\ j = Cardinality(DOMAIN jobs) + 1
    /\ jobs' = jobs @@ (j :> JobRow(in.owner, in.pdfPath, json_dumps(in.options), j))
    /\ UNCHANGED throttleCall
    /\ UNCHANGED storeFrame

\* JobQueue.update_job_status(strJobId, status, optResultPath, optErrorMessage)
\* on a job that exists and has not ended (the worker and cancel_job call it
\* on no other)
store_update_job_status(j, st, optResultPath, optErrorMessage) ==
    /\ job_found(jobs, j)
    /\ jobs[j].status \in {PENDING, RUNNING}
    /\ jobs' = update_job_status(jobs, j, st, optResultPath, optErrorMessage)
    /\ UNCHANGED throttleCall
    /\ UNCHANGED storeFrame

\* throttle_job up to its UPDATE: get_job, False when there is no such job
throttle_job_check(s, j, boolThrottled, strUserId) ==
    /\ throttleCall[s].pc = "idle"
    /\ throttleCall' = [throttleCall EXCEPT ![s] =
          IF ~job_found(jobs, j)
          THEN [IdleThrottle(<<FALSE>>) EXCEPT !.job = j]
          ELSE [pc |-> "write", job |-> j, throttled |-> boolThrottled,
                user |-> strUserId, ret |-> <<>>]]
    /\ UNCHANGED jobs
    /\ UNCHANGED storeFrame

\* the UPDATE of throttle_job and its return True
throttle_job_write(s) ==
    LET call == throttleCall[s]
    IN  /\ call.pc = "write"
        /\ jobs' = throttle_update(jobs, call.job, call.throttled, call.user)
        /\ throttleCall' = [throttleCall EXCEPT
                               ![s] = [call EXCEPT !.pc = "idle", !.ret = <<TRUE>>]]
        /\ UNCHANGED storeFrame

StoreNext ==
    \/ \E j \in JobIds : \E in \in CreateInputs : store_create_job(j, in)
    \/ \E j \in JobIds : \E st \in StoreStatuses : \E e \in StoreErrTexts :
          store_update_job_status(j, st,
                                  IF st = COMPLETED THEN ResultPath(j) ELSE NoPath,
                                  IF st = FAILED THEN e ELSE NoneVal)
    \/ \E s \in Throttlers : \E j \in JobIds : \E b \in BOOLEAN :
          \E u \in StorePrincipals : throttle_job_check(s, j, b, u)
    \/ \E s \in Throttlers : throttle_job_write(s)

StoreSpec == Init /\ [][StoreNext]_vars

\* the columns update_job_status must not touch
KeptByStatusUpdate(row) ==
    <<row.owner, row.pdfPath, row.options, row.throttled, row.throttledBy,
      row.createdAt>>

\* C29: update_job_status(j, RUNNING) on a PENDING job sets the start
\* timestamp and leaves the completion timestamp unset; COMPLETED with a
\* result path sets the completion timestamp and that path; FAILED with a
\* message sets the completion timestamp and that message; owner, source
\* path, options and throttle fields of the job, and every other job, are
\* unchanged by each.
C29_StatusUpdateEffect ==
    [][\A j \in JobIds : \A st \in StoreStatuses : \A e \in StoreErrTexts :
          LET X == IF st = COMPLETED THEN ResultPath(j) ELSE NoPath
              M == IF st = FAILED THEN e ELSE NoneVal
          IN  store_update_job_status(j, st, X, M)
                 => /\ jobs'[j].status = st
                    /\ (st = RUNNING /\ jobs[j].status = PENDING)
                          => /\ jobs'[j].startedAt = Stamp
                             /\ jobs'[j].completedAt = NoneVal
                    /\ st = COMPLETED
                          => /\ jobs'[j].completedAt = Stamp
                             /\ jobs'[j].resultPath = X
                    /\ st = FAILED
                          => /\ jobs'[j].completedAt = Stamp
                             /\ jobs'[j].errorMessage = M
                    /\ KeptByStatusUpdate(jobs'[j]) = KeptByStatusUpdate(jobs[j])
                    /\ DOMAIN jobs' = DOMAIN jobs
                    /\ \A k \in DOMAIN jobs \ {j} : jobs'[k] = jobs[k]]_vars

C29_Witness ==
    /\ DOMAIN jobs = JobIds
    /\ jobs[1].status = FAILED
    /\ jobs[1].errorMessage \in StoreErrTexts
    /\ jobs[1].startedAt = Stamp
    /\ jobs[1].throttled
    /\ jobs[MaxJobs].status = RUNNING
    /\ jobs[MaxJobs].completedAt = NoneVal

\* the columns throttle_job must not touch
KeptByThrottle(row) ==
    <<row.owner, row.pdfPath, row.options, row.status, row.createdAt,
      row.startedAt, row.completedAt, row.resultPath, row.errorMessage>>

\* C30: throttle_job(j, b, u) changes only j's throttle flag, to b, and its
\* throttling principal, to u when b is true and to none when b is false;
\* j's status, timestamps and result and every other job stay; it returns
\* True for every job that exists, also when two calls run together, and
\* the later UPDATE sets both fields together.
C30_ThrottleEffect ==
    /\ [](\A j \in DOMAIN jobs : jobs[j].throttled <=> jobs[j].throttledBy # NoneVal)
    /\ [][\A s \in Throttlers :
            /\ throttle_job_write(s)
                  => LET call == throttleCall[s]
                     IN  /\ throttleCall'[s].ret = <<TRUE>>
                         /\ jobs'[call.job].throttled = call.throttled
                         /\ jobs'[call.job].throttledBy =
                               (IF call.throttled THEN call.user ELSE NoneVal)
                         /\ KeptByThrottle(jobs'[call.job])
                               = KeptByThrottle(jobs[call.job])
                         /\ DOMAIN jobs' = DOMAIN jobs
                         /\ \A k \in DOMAIN jobs \ {call.job} : jobs'[k] = jobs[k]
            /\ \A j \in JobIds :
                  (\E b \in BOOLEAN : \E u \in StorePrincipals :
                      throttle_job_check(s, j, b, u))
                     => IF job_found(jobs, j)
                        THEN throttleCall'[s].pc = "write"
                        ELSE throttleCall'[s].ret = <<FALSE>>]_vars

\* two calls for one job were in their UPDATE together, both returned True,
\* and the job carries the flag and the principal of one of them
C30_Witness ==
    /\ \A s \in Throttlers :
          /\ throttleCall[s].pc = "idle"
          /\ throttleCall[s].ret = <<TRUE>>
          /\ throttleCall[s].job = 1
    /\ throttleCall[1].throttled /\ throttleCall[1].user = "admin-user"
    /\ \E s \in Throttlers : ~throttleCall[s].throttled
    /\ jobs[1].throttled
    /\ jobs[1].throttledBy = "admin-user"
    /\ jobs[1].status = RUNNING

(***************************************************************************)
(* jobs/queue.py, list_jobs as the event loop runs it: the COUNT query,    *)
(* an await, and the SELECT ... ORDER BY created_at DESC LIMIT ? OFFSET ?; *)
(* jobs are created and change status between the two.                     *)
(***************************************************************************)
ListStatuses == {NoneVal, PENDING, RUNNING}
ListOwners == {NoneVal, "alice", "bob"}
PageSizes == 0..MaxPage

listFrame == <<jobs, resultFiles, cancelCall, workerVars, accessVars, tokenVars,
               limVars, redisVars, mwOut, sbx, storeVars, updateRet, retry>>

\* list_jobs up to its second query: SELECT COUNT(*) with the filters
list_jobs_count(optStatus, optOwnerUserId, intLimit, intOffset) ==
    /\ listCall.pc = "idle"
    /\ listCall' = [pc |-> "select", status |-> optStatus, owner |-> optOwnerUserId,
                    limit |-> intLimit, offset |-> intOffset,
                    total |-> list_jobs(jobs, optStatus, optOwnerUserId,
                                        intLimit, intOffset).total,
                    items |-> <<>>]
    /\ UNCHANGED listFrame

\* the paginated SELECT and the return of (listJobs, intTotal)
list_jobs_select ==
    /\ listCall.pc = "select"
    /\ listCall' = [listCall EXCEPT
                       !.pc = "idle",
                       !.items = list_jobs(jobs, listCall.status, listCall.owner,
                                           listCall.limit, listCall.offset).items]
    /\ UNCHANGED listFrame

ListNext ==
    \/ \E j \in JobIds : \E in \in CreateInputs : store_create_job(j, in)
    \/ \E j \in JobIds : \E st \in {RUNNING, COMPLETED} :
          store_update_job_status(j, st,
                                  IF st = COMPLETED THEN ResultPath(j) ELSE NoPath,
                                  NoneVal)
    \/ \E st \in ListStatuses : \E ow \in ListOwners :
          \E lim \in PageSizes : \E off \in PageSizes :
             list_jobs_count(st, ow, lim, off)
    \/ list_jobs_select

ListSpec == Init /\ [][ListNext]_vars

\* the jobs that pass a status filter and an owner filter
PassFilters(js, optStatus, optOwner) ==
    {j \in DOMAIN js : /\ optStatus # NoneVal => js[j].status = optStatus
                       /\ optOwner # NoneVal => js[j].owner = optOwner}

\* the matching jobs created after job j
NewerThan(js, S, j) == {k \in S : js[k].createdAt > js[j].createdAt}

\* C31: the total of list_jobs is the number of all jobs that pass the
\* status and owner filters when the count is taken, whatever limit and
\* offset are; the items are at most limit jobs that pass the filters, the
\* i-th being the job with offset + i - 1 matching jobs newer than it.
C31_ListTotalAndPage ==
    [][/\ (listCall.pc = "idle" /\ listCall'.pc = "select")
             => listCall'.total =
                   Cardinality(PassFilters(jobs, listCall'.status, listCall'.owner))
       /\ (listCall.pc = "select" /\ listCall'.pc = "idle")
             => LET S == PassFilters(jobs, listCall.status, listCall.owner)
                    items == listCall'.items
                    rest == IF Cardinality(S) > listCall.offset
                            THEN Cardinality(S) - listCall.offset ELSE 0
                IN  /\ Len(items) = Min(listCall.limit, rest)
                    /\ listCall'.total = listCall.total
                    /\ \A i \in 1..Len(items) :
                          /\ items[i] \in S
                          /\ Cardinality(NewerThan(jobs, S, items[i]))
                                = listCall.offset + i - 1]_vars

\* a page of one job out of two that match: the older one, at offset 1
C31_Witness ==
    /\ listCall.pc = "idle"
    /\ listCall.total = MaxJobs
    /\ listCall.limit = 1
    /\ listCall.offset = 1
    /\ listCall.owner = NoneVal
    /\ listCall.items = <<1>>
    /\ DOMAIN jobs = JobIds

(***************************************************************************)
(* api/routes/jobs.py, GET /jobs/{job_id}/result next to the cancel route  *)
(* and the worker: jobs of every status are asked for.                     *)
(***************************************************************************)
ResultNext ==
    \/ CancelApiNext
    \/ \E user \in Users, j \in JobIds : get_job_result(user, j)

ResultSpec == Init /\ [][ResultNext]_vars

\* C32: the result route answers 200 only for a job that is COMPLETED, has a
\* result path recorded and its file present; for a PENDING, RUNNING, FAILED
\* or CANCELLED job it answers with an error and no file, also to the owner
\* and to a role that views all jobs.
C32_ResultOnlyWhenCompleted ==
    \A user \in Users : \A j \in DOMAIN jobs :
        LET r == get_job_result_response(jobs, resultFiles, grants, user, j)
        IN  /\ r.code = "200"
                  => /\ jobs[j].status = COMPLETED
                     /\ jobs[j].resultPath # NoPath
                     /\ j \in resultFiles
            /\ jobs[j].status \in {PENDING, RUNNING, FAILED, CANCELLED}
                  => r.code \in {"400", "403", "404"}

\* a request for a result was answered 400 while one job is CANCELLED after
\* its result file was written and another is FAILED
C32_Witness ==
    /\ resp = Response("400", <<>>)
    /\ \E j \in DOMAIN jobs : jobs[j].status = CANCELLED /\ j \in resultFiles
    /\ \E j \in DOMAIN jobs : jobs[j].status = FAILED

\* ---- the worker and the credential store --------------------------------
\* POST /convert under a presented credential: get_current_user validates it, the
\* job is created for the user of its row
route_create_job(j, strToken) ==
    /\ validate_token(tokens, now, strToken) # Nothing
    /\ create_job(j, validate_token(tokens, now, strToken)[1].strUserId)

\* the store holds no active credential of this user
NoLiveCredential(strUserId) ==
    ~\E i \in DOMAIN tokens : tokens[i].user_id = strUserId /\ tokens[i].is_active = 1

CredNext ==
    \/ \E u \in TokenUserIds : cli_create_token(u, ADMIN, Nothing, Nothing)
    \/ \E op \in {REVOKE, DISABLE} : \E i \in TokenIds : cli_token_cmd(op, i)
    \/ \E j \in JobIds : \E n \in TokenIds : route_create_job(j, generate_token(n))
    \/ lifespan_start
    \/ \E t \in Tasks : loop_check(t)
    \/ \E t \in Tasks : fetch(t)
    \/ \E t \in Tasks : fetch_raises(t)
    \/ \E t \in Tasks : sleep_done(t)
    \/ \E t \in Tasks : process_start(t)
    \/ \E t \in Tasks : extract_returns(t)
    \/ \E t \in Tasks, e \in ErrTexts : extract_raises(t, e)
    \/ \E t \in Tasks : process_complete(t)
    \/ \E t \in Tasks : process_fail(t)

CredSpec == Init /\ [][CredNext]_vars

\* the application starts its worker, the worker keeps being scheduled, and
\* the job store answers the worker's query again and again
FairCredSpec ==
    /\ CredSpec
    /\ WF_vars(lifespan_start)
    /\ \A t \in Tasks : WF_vars(WorkerStep(t)) /\ SF_vars(fetch(t))

\* C33: a step that revokes or disables a credential changes no job, no result
\* file and nothing of the worker; and a job whose creating user is left
\* without any active credential is still picked by the worker and driven to
\* COMPLETED or FAILED.
C33_CredentialLossLeavesJobRunning ==
    /\ [][tokens' # tokens =>
            /\ jobs' = jobs
            /\ resultFiles' = resultFiles
            /\ UNCHANGED workerVars]_vars
    /\ \A j \in JobIds :
          (j \in DOMAIN jobs /\ jobs[j].status \in {PENDING, RUNNING}
             /\ NoLiveCredential(jobs[j].owner))
          ~> (j \in DOMAIN jobs /\ jobs[j].status \in {COMPLETED, FAILED})

C33_Witness ==
    /\ Len(issuedLog) = MaxTokens
    /\ 1 \notin DOMAIN tokens
    /\ MaxTokens \in DOMAIN tokens /\ tokens[MaxTokens].is_active = 0
    /\ DOMAIN jobs = JobIds
    /\ jobs[1].status = COMPLETED
    /\ jobs[MaxJobs].status = FAILED

\* ---- what a terminal row records ----------------------------------------
\* C34: in every reachable state a COMPLETED job has a non-empty result path,
\* the file of that path has been written, and it has no error message; a
\* FAILED job has an error message and no result path.
C34_TerminalRowsRecordOutcome ==
    \A j \in DOMAIN jobs :
        /\ jobs[j].status = COMPLETED =>
              /\ jobs[j].resultPath # NoPath
              /\ Len(jobs[j].resultPath) > 0
              /\ j \in resultFiles
              /\ jobs[j].errorMessage = NoneVal
        /\ jobs[j].status = FAILED =>
              /\ jobs[j].errorMessage # NoneVal
              /\ jobs[j].resultPath = NoPath

C34_Witness ==
    /\ DOMAIN jobs = JobIds
    /\ jobs[1].status = FAILED /\ jobs[1].errorMessage \in ErrTexts
    /\ jobs[MaxJobs].status = COMPLETED /\ MaxJobs \in resultFiles

\* ---- the job store asked about a job it does not hold --------------------
\* JobQueue.update_job_status as one call: get_job, False when there is no such
\* job, else the UPDATE and True
update_job_status_call(j, st, optResultPath, optErrorMessage) ==
    /\ updateRet' = <<job_found(jobs, j)>>
    /\ jobs' = update_job_status(jobs, j, st, optResultPath, optErrorMessage)
    /\ UNCHANGED <<resultFiles, cancelCall, workerVars, accessVars, tokenVars,
                   limVars, redisVars, mwOut, sbx, storeVars, listCall, retry>>

\* one call of a kind at a time; access is granted to one user
OneCall == {1}
MissingUsers == {"bob"}

MissingNext ==
    \/ \E j \in GrantJobIds, o \in QueueOwners : create_job(j, o)
    \/ \E j \in JobIds : \E st \in StoreStatuses : \E e \in StoreErrTexts :
          update_job_status_call(j, st,
                                 IF st = COMPLETED THEN ResultPath(j) ELSE NoPath,
                                 IF st = FAILED THEN e ELSE NoneVal)
    \/ \E c \in Callers, j \in JobIds : cancel_job_check(c, j)
    \/ \E c \in Callers : cancel_job_write(c)
    \/ \E s \in OneCall : \E j \in JobIds : \E b \in BOOLEAN :
          \E u \in ThrottleUsers : throttle_job_check(s, j, b, u)
    \/ \E s \in OneCall : throttle_job_write(s)
    \/ \E s \in OneCall, j \in JobIds, to \in MissingUsers, by \in QueueOwners :
          grant_job_access_check(s, j, to, by) /\ UNCHANGED resp
    \/ \E s \in OneCall : grant_job_access_insert(s) /\ UNCHANGED resp

MissingSpec == Init /\ [][MissingNext]_vars

\* C35: update_job_status, cancel_job, throttle_job and grant_job_access called
\* with a job id that is not in the store each return False, and the job
\* table and the grant relation are as before the call.
C35_MissingJobReturnsFalse ==
    [][\A j \in JobIds \ DOMAIN jobs :
          /\ (\E st \in StoreStatuses : \E e \in StoreErrTexts :
                 update_job_status_call(j, st,
                                        IF st = COMPLETED THEN ResultPath(j) ELSE NoPath,
                                        IF st = FAILED THEN e ELSE NoneVal))
             => (updateRet' = <<FALSE>> /\ jobs' = jobs /\ grants' = grants)
          /\ \A c \in Callers :
                cancel_job_check(c, j)
                => /\ cancelCall'[c].pc = "idle" /\ cancelCall'[c].ret = "False"
                   /\ jobs' = jobs /\ grants' = grants
          /\ \A s \in OneCall :
                (\E b \in BOOLEAN : \E u \in ThrottleUsers :
                    throttle_job_check(s, j, b, u))
                => /\ throttleCall'[s].pc = "idle" /\ throttleCall'[s].ret = <<FALSE>>
                   /\ jobs' = jobs /\ grants' = grants
          /\ \A s \in OneCall :
                (\E to \in MissingUsers, by \in QueueOwners :
                    grant_job_access_check(s, j, to, by))
                => /\ grantCall'[s].pc = "idle" /\ grantCall'[s].ret = "False"
                   /\ jobs' = jobs /\ grants' = grants]_vars

C35_Witness ==
    /\ DOMAIN jobs = GrantJobIds
    /\ updateRet = <<FALSE>>
    /\ cancelCall[1].ret = "False" /\ cancelCall[1].job = MaxJobs
    /\ throttleCall[1].ret = <<FALSE>> /\ throttleCall[1].job = MaxJobs
    /\ grantCall[1].ret = "False"
    /\ \E k \in DOMAIN grants : grants[k] # <<>>

\* ---- with_retry ---------------------------------------------------------
retryFrame == <<jobs, resultFiles, cancelCall, workerVars, accessVars, tokenVars,
                limVars, redisVars, mwOut, sbx, storeVars, listCall, updateRet>>

\* intMaxRetries and floatBackoffBase the decorator is given
RetryCounts == 0..MaxRetries
BackoffBases == {1, 2, 3}
\* what a call of the wrapped function raises
RetryErrs == {"ConnectionError", "TimeoutError"}

\* floatBackoffBase**intAttempt
RECURSIVE Pow(_, _)
Pow(b, k) == IF k = 0 THEN 1 ELSE b * Pow(b, k - 1)

\* mutant: the exponent counts the attempts made, not the loop index
floatWaitTime_of_attempts_made(floatBackoffBase, intAttempt) ==
    Pow(floatBackoffBase, intAttempt + 1)

floatWaitTime(floatBackoffBase, intAttempt) == Pow(floatBackoffBase, intAttempt)

\* the wrapper is called: range(intMaxRetries) is empty for no retries, and the
\* wrapper falls through to its RuntimeError
retry_invoke(intMaxRetries, floatBackoffBase) ==
    /\ retry.pc \in {"idle", "done"}
    /\ retry' = [RetryIdle EXCEPT
                    !.n = intMaxRetries, !.base = floatBackoffBase,
                    !.pc = IF intMaxRetries > 0 THEN "call" ELSE "done",
                    !.out = IF intMaxRetries > 0 THEN <<>>
                            ELSE <<"raise", <<"RuntimeError", 0>>>>]
    /\ UNCHANGED retryFrame

\* await func(...) returns: the wrapper returns its result (the result is
\* marked with the number of the call that gave it)
retry_call_returns ==
    /\ retry.pc = "call"
    /\ retry' = [retry EXCEPT !.calls = @ + 1, !.pc = "done",
                              !.out = <<"return", <<"result", retry.calls + 1>>>>]
    /\ UNCHANGED retryFrame

\* await func(...) raises an Exception: it is kept, and either the wrapper
\* sleeps, or the loop is over and the kept exception is raised
retry_call_raises(e) ==
    /\ retry.pc = "call"
    /\ LET exception == <<e, retry.calls + 1>>
       IN IF retry.attempt < retry.n - 1
          THEN retry' = [retry EXCEPT
                            !.calls = @ + 1, !.last = exception, !.pc = "sleep",
                            !.waits = Append(@, floatWaitTime(retry.base, retry.attempt))]
          ELSE retry' = [retry EXCEPT
                            !.calls = @ + 1, !.last = exception, !.pc = "done",
                            !.out = <<"raise", exception>>]
    /\ UNCHANGED retryFrame

\* await func(...) raises what is no Exception (asyncio.CancelledError): the
\* except clause does not catch it
retry_call_cancelled ==
    /\ retry.pc = "call"
    /\ retry' = [retry EXCEPT !.calls = @ + 1, !.pc = "done",
                              !.out = <<"raise", <<"CancelledError", retry.calls + 1>>>>]
    /\ UNCHANGED retryFrame

\* asyncio.sleep(floatWaitTime) is over: the next turn of the loop
retry_sleep_done ==
    /\ retry.pc = "sleep"
    /\ retry' = [retry EXCEPT !.pc = "call", !.attempt = @ + 1]
    /\ UNCHANGED retryFrame

RetryStep ==
    \/ retry_call_returns
    \/ \E e \in RetryErrs : retry_call_raises(e)
    \/ retry_call_cancelled
    \/ retry_sleep_done

RetryNext ==
    \/ \E n \in RetryCounts : \E b \in BackoffBases : retry_invoke(n, b)
    \/ retry_call_returns
    \/ \E e \in RetryErrs : retry_call_raises(e)
    \/ retry_call_cancelled
    \/ retry_sleep_done

RetrySpec == Init /\ [][RetryNext]_vars

\* the wrapped function returns or raises, and a sleep ends
FairRetrySpec == RetrySpec /\ WF_vars(RetryStep)

\* the waits made so far: the first lasts 1, each next one b times the one before
WaitsAreBackoff ==
    \A i \in 1..Len(retry.waits) : retry.waits[i] = Pow(retry.base, i - 1)

\* C36: per invocation of a function wrapped by with_retry(n, b) the function
\* is called at most n times; a call that returns ends the invocation with its
\* result, no call after it; before the call of loop index k+1 there is one
\* wait of b^k (k counted from 0 as the loop counts), and none after the last
\* call; after n calls that raised an Exception the last of them is raised;
\* and every invocation ends when the calls and the sleeps do.
C36_RetryBounded ==
    /\ [](/\ retry.calls <= retry.n
          /\ WaitsAreBackoff
          /\ retry.pc = "call" =>
                /\ retry.calls = retry.attempt
                /\ Len(retry.waits) = retry.attempt
          /\ retry.pc = "sleep" => Len(retry.waits) = retry.calls
          /\ (retry.pc = "done" /\ retry.n > 0) => Len(retry.waits) = retry.calls - 1
          /\ (retry.pc = "done" /\ retry.out[1] = "return") =>
                retry.out[2] = <<"result", retry.calls>>
          /\ (retry.pc = "done" /\ retry.calls = retry.n /\ retry.n > 0
                /\ retry.out[1] = "raise" /\ retry.out[2][1] \in RetryErrs) =>
                /\ retry.out[2] = retry.last
                /\ retry.last[2] = retry.n
          /\ (retry.pc = "done" /\ retry.out[1] = "raise"
                /\ retry.out[2][1] \in RetryErrs) => retry.calls = retry.n)
    /\ (retry.pc \in {"call", "sleep"}) ~> (retry.pc = "done")

C36_Witness ==
    /\ retry.pc = "done"
    /\ retry.n = MaxRetries
    /\ retry.base = 3
    /\ retry.calls = MaxRetries
    /\ Len(retry.waits) = MaxRetries - 1
    /\ retry.waits[MaxRetries - 1] = Pow(3, MaxRetries - 2)
    /\ retry.out = <<"raise", <<"TimeoutError", MaxRetries>>>>

\* ---- the order in which the worker takes jobs ----------------------------
\* C37: the job a fetch of the worker picks is PENDING and no PENDING job was
\* created after it: an older PENDING job is picked only when no newer one is
\* PENDING (so jobs that keep arriving are taken before it, each time).
C37_NewestPendingPicked ==
    [][\A t \in Tasks :
          (pc[t] = "fetch" /\ pc'[t] = "got") =>
             /\ cur'[t] \in DOMAIN jobs
             /\ jobs[cur'[t]].status = PENDING
             /\ \A k \in DOMAIN jobs :
                   jobs[k].status = PENDING =>
                      jobs[k].createdAt <= jobs[cur'[t]].createdAt]_vars

\* a job created later has been picked and has ended, the older one still waits
C37_Witness ==
    /\ DOMAIN jobs = JobIds
    /\ jobs[1].status = PENDING /\ ~jobs[1].throttled
    /\ jobs[1].createdAt < jobs[MaxJobs].createdAt
    /\ jobs[MaxJobs].status = COMPLETED
    /\ \E t \in Tasks : pc[t] = "fetch"

\* ---- the Redis limiter after a backend error ----------------------------
\* connect() called again on a limiter: the ping sets the mark anew
rl_reconnect(p) ==
    /\ rlProc[p].pc = "idle"
    /\ rlProc' = [rlProc EXCEPT ![p].avail = redisUp]
    /\ UNCHANGED <<redisUp, redisKeys, rlRet, rlLog, limNow>>
    /\ UNCHANGED redisFrame

StickyNext ==
    \/ RedisNext
    \/ \E p \in RlProcs : rl_reconnect(p)

StickySpec == Init /\ [][StickyNext]_vars

\* C38: a check_rate_limit whose INCR or EXPIRE fails leaves the limiter
\* marked unavailable; a marked limiter answers every check with the answer
\* of its fail mode and without a command to Redis, also while Redis answers
\* again; and the mark is taken off by no step but a connect() that finds
\* Redis answering.
C38_UnavailableUntilConnect ==
    [][\A p \in RlProcs :
          /\ ((rl_incr(p) \/ rl_expire(p)) /\ ~redisUp) =>
                (~rlProc'[p].avail /\ rlRet'.kind = "failed")
          /\ (~rlProc[p].avail /\ \E c \in RlCreds : rl_enter(p, c)) =>
                /\ rlRet' = [proc |-> p, kind |-> "unavailable",
                             ret |-> (rlProc[p].mode = "open")]
                /\ redisKeys' = redisKeys
                /\ rlLog' = rlLog
                /\ ~rlProc'[p].avail
          /\ (rlProc[p].pc # "new" /\ ~rlProc[p].avail /\ rlProc'[p].avail) =>
                (rl_reconnect(p) /\ redisUp)]_vars

\* Redis answers (the other limiter is counting on it), this limiter still
\* gives the answer of its fail mode
C38_Witness ==
    /\ redisUp
    /\ ~rlProc[1].avail /\ rlProc[1].pc = "idle"
    /\ rlRet = [proc |-> 1, kind |-> "unavailable", ret |-> TRUE]
    /\ rlProc[MaxRlProcs].pc = "expire" /\ rlProc[MaxRlProcs].avail
    /\ redisKeys[<<MaxQuota, WindowOf(limNow)>>].n = 1

\* ---- how often the middleware runs the route ---------------------------
\* C39: serving one request the middleware runs the route at most once, also
\* when the handler raises or log_token_usage fails after the handler ran; a
\* request the limiter admitted has run its route, and with it the job-store
\* operation, exactly once.
C39_HandlerAtMostOnce ==
    /\ mwOut.calls <= 1
    /\ (mwOut.limiter = "allowed" /\ mwOut.authed) => mwOut.calls = 1
====
